---- MODULE Spec2Model ----
(***************************************************************************)
(* A model of the compare-pdfs backend: the region resolver of             *)
(* services/paired_sections.py, the job store of services/job_store.py and *)
(* the three stage pipelines started from routers/analysis.py.             *)
(*                                                                         *)
(* Coordinates are integers (page units).  A bounding box is a tuple       *)
(* <<x0, y0, x1, y1>>.  Where the code halves a sum (the centroid), the    *)
(* model keeps twice the value and doubles what it is compared with.       *)
(***************************************************************************)
EXTENDS Integers, Sequences, FiniteSets, TLC

VARIABLES
    page_map,   \* the page map handed to _apply_layout_to_page
    layout,     \* the normalised region proposals handed to it
    sections,   \* what it returned
    lpc,        \* "input" before the call, "applied" after it
    jobs,       \* job_store._jobs: the job records, in the dict's insertion order
    jobs_file,  \* the contents of JOBS_FILE (data/jobs.json)
    temp_file,  \* the contents of the temporary file beside it (data/jobs.tmp)
    runs,       \* the run tasks this process has created, in creation order
    now,        \* the wall clock read by create_job
    created,    \* the number of jobs ever created (the next job id is created + 1)
    restarts,   \* the number of times the process has been stopped and started
    ref_names,  \* the section names of the reference page handed to _match_sections
    test_names, \* the section names of the test page handed to it
    wratio,     \* what fuzz.WRatio scores for each two names
    match,      \* what _match_sections returned
    raw_sections, \* the "sections" array of the oracle's answer, before _normalize_sections
    results,    \* the keys of the _results dicts of the three result stores
    raw_page,   \* what _extract_raw returned for the page: width, height, primitives
    extracted,  \* the element list of extract_page_map as far as it has got
    xpc,        \* "raw", then "rect_merged", "clustered", "extracted", "returned"
    separator,  \* header_separator_y of the result, in half points; NoSep if absent
    loop        \* a repeat-until-no-change loop between two passes: its lists and flag

layoutVars == <<page_map, layout, sections, lpc, raw_sections>>

storeVars == <<jobs, jobs_file, temp_file, runs, now, created, restarts, results>>

matchVars == <<ref_names, test_names, wratio, match>>

\* the variables of the page-level functions, which no request or run touches
extractVars == <<raw_page, extracted, xpc, separator, loop>>

pureVars == <<layoutVars, matchVars, extractVars>>

vars == <<page_map, layout, sections, lpc, jobs, jobs_file, temp_file, runs, now, created,
          restarts, ref_names, test_names, wratio, match, raw_sections, results,
          raw_page, extracted, xpc, separator, loop>>

(***************************************************************************)
(* Geometry utilities                                                      *)
(***************************************************************************)
Min2(a, b) == IF a <= b THEN a ELSE b

Max2(a, b) == IF a >= b THEN a ELSE b

Abs(a) == IF a < 0 THEN 0 - a ELSE a

SetMin(S) == CHOOSE m \in S : \A k \in S : m <= k

SetMax(S) == CHOOSE m \in S : \A k \in S : m >= k

RectIntersectionArea(a, b) ==
    LET ix0 == Max2(a[1], b[1])
        iy0 == Max2(a[2], b[2])
        ix1 == Min2(a[3], b[3])
        iy1 == Min2(a[4], b[4])
    IN  IF ix1 <= ix0 \/ iy1 <= iy0 THEN 0 ELSE (ix1 - ix0) * (iy1 - iy0)

BboxUnion(bboxes) ==
    << SetMin({bboxes[k][1] : k \in DOMAIN bboxes}),
       SetMin({bboxes[k][2] : k \in DOMAIN bboxes}),
       SetMax({bboxes[k][3] : k \in DOMAIN bboxes}),
       SetMax({bboxes[k][4] : k \in DOMAIN bboxes}) >>

\* (cx2, cy2) is twice the point tested
ContainsPoint(region, cx2, cy2) ==
    /\ 2 * region[1] <= cx2 /\ cx2 <= 2 * region[3]
    /\ 2 * region[2] <= cy2 /\ cy2 <= 2 * region[4]

\* twice the centroid
Centroid(bbox) == << bbox[1] + bbox[3], bbox[2] + bbox[4] >>

(***************************************************************************)
(* Overlap resolver                                                        *)
(***************************************************************************)
RemoveAt(s, k) == [n \in 1..(Len(s) - 1) |-> IF n < k THEN s[n] ELSE s[n + 1]]

HasIds(s) == "element_ids" \in DOMAIN s

\* a merge that joins the names the other way round
MergeIntoReversed(a, b) ==
    LET ctype == IF a.content_type = "metadata" THEN b.content_type
                 ELSE IF b.content_type # "metadata" /\ a.content_type # b.content_type
                      THEN "mixed"
                      ELSE a.content_type
    IN  [a EXCEPT !.region = BboxUnion(<<a.region, b.region>>),
                  !.name = b.name \o " + " \o a.name,
                  !.content_type = ctype]

\* the body of the `if` of the inner loop: merge out[j] into out[i]
MergeInto(a, b) ==
    LET ctype == IF a.content_type = "metadata" THEN b.content_type
                 ELSE IF b.content_type # "metadata" /\ a.content_type # b.content_type
                      THEN "mixed"
                      ELSE a.content_type
        m == [a EXCEPT !.region = BboxUnion(<<a.region, b.region>>),
                       !.name = a.name \o " + " \o b.name,
                       !.content_type = ctype]
    IN  IF HasIds(a) /\ HasIds(b)
        THEN [m EXCEPT !.element_ids = a.element_ids \o b.element_ids]
        ELSE m

RECURSIVE ScanJ(_, _, _, _)
\* the `while j < len(out)` loop; the result is <<out, changed>>
ScanJ(out, i, j, changed) ==
    IF j > Len(out) THEN <<out, changed>>
    ELSE IF RectIntersectionArea(out[i].region, out[j].region) > 0
         THEN ScanJ(RemoveAt([out EXCEPT ![i] = MergeInto(out[i], out[j])], j), i, j, TRUE)
         ELSE ScanJ(out, i, j + 1, changed)

RECURSIVE ScanI(_, _, _)
\* the `while i < len(out)` loop
ScanI(out, i, changed) ==
    IF i > Len(out) THEN <<out, changed>>
    ELSE LET r == ScanJ(out, i, i + 1, changed) IN ScanI(r[1], i + 1, r[2])

RECURSIVE ScanUntilStable(_)
\* the `while changed` loop
ScanUntilStable(out) ==
    LET r == ScanI(out, 1, FALSE) IN IF r[2] THEN ScanUntilStable(r[1]) ELSE r[1]

\* a resolver that scans once and does not restart after a merge
ResolveOverlapsOnePass(secs) == ScanI(secs, 1, FALSE)[1]

ResolveOverlaps(secs) == ScanUntilStable(secs)

(***************************************************************************)
(* Element assignment                                                      *)
(***************************************************************************)
\* the indexes of S at which key is least, least index first: min over (key, si)
ArgMinKey(S, key) ==
    CHOOSE si \in S : \A sj \in S :
        key[si] < key[sj] \/ (key[si] = key[sj] /\ si <= sj)

\* a choice that takes the first region containing the centroid, whatever the
\* intersection areas
ChooseFirstContaining(el, sec_out) ==
    LET c == Centroid(el.bbox)
        containing == {si \in DOMAIN sec_out : ContainsPoint(sec_out[si].region, c[1], c[2])}
        dist == [si \in DOMAIN sec_out |->
            LET r == sec_out[si].region
                dy == IF 2 * r[2] <= c[2] /\ c[2] <= 2 * r[4] THEN 0
                      ELSE Min2(Abs(c[2] - 2 * r[2]), Abs(c[2] - 2 * r[4]))
                dx == IF 2 * r[1] <= c[1] /\ c[1] <= 2 * r[3] THEN 0
                      ELSE Min2(Abs(c[1] - 2 * r[1]), Abs(c[1] - 2 * r[3]))
            IN  dy * dy + dx * dx]
    IN  IF containing # {}
        THEN SetMin(containing)
        ELSE ArgMinKey(DOMAIN sec_out, dist)

ChooseSection(el, sec_out) ==
    LET c == Centroid(el.bbox)
        containing == {si \in DOMAIN sec_out : ContainsPoint(sec_out[si].region, c[1], c[2])}
        negInter == [si \in DOMAIN sec_out |->
                        0 - RectIntersectionArea(sec_out[si].region, el.bbox)]
        dist == [si \in DOMAIN sec_out |->
            LET r == sec_out[si].region
                dy == IF 2 * r[2] <= c[2] /\ c[2] <= 2 * r[4] THEN 0
                      ELSE Min2(Abs(c[2] - 2 * r[2]), Abs(c[2] - 2 * r[4]))
                dx == IF 2 * r[1] <= c[1] /\ c[1] <= 2 * r[3] THEN 0
                      ELSE Min2(Abs(c[1] - 2 * r[1]), Abs(c[1] - 2 * r[3]))
            IN  dy * dy + dx * dx]
    IN  IF containing # {}
        THEN IF Cardinality(containing) = 1
             THEN CHOOSE si \in containing : TRUE
             ELSE ArgMinKey(containing, negInter)
        ELSE ArgMinKey(DOMAIN sec_out, dist)

RECURSIVE AssignLoop(_, _, _)
\* the `for el in elements` loop, from element k on
AssignLoop(elements, k, sec_out) ==
    IF k > Len(elements) THEN sec_out
    ELSE LET chosen == ChooseSection(elements[k], sec_out)
         IN  AssignLoop(elements, k + 1,
                 [sec_out EXCEPT ![chosen].element_ids = Append(@, elements[k].id)])

RECURSIVE DedupIds(_, _, _)
\* one section's ids without those seen; the result is <<uniq, seen>>
DedupIds(ids, uniq, seen) ==
    IF ids = << >> THEN <<uniq, seen>>
    ELSE IF Head(ids) \in seen
         THEN DedupIds(Tail(ids), uniq, seen)
         ELSE DedupIds(Tail(ids), Append(uniq, Head(ids)), seen \cup {Head(ids)})

RECURSIVE Dedup(_, _, _)
Dedup(sec_out, k, seen) ==
    IF k > Len(sec_out) THEN sec_out
    ELSE LET r == DedupIds(sec_out[k].element_ids, << >>, seen)
         IN  Dedup([sec_out EXCEPT ![k].element_ids = r[1]], k + 1, r[2])

\* an assignment that drops the elements whose centroid no region contains
AssignNoNearest(pm, secs) ==
    IF secs = << >>
    THEN << [name |-> "Page", content_type |-> "mixed",
             element_ids |-> [k \in DOMAIN pm.elements |-> pm.elements[k].id],
             region |-> <<0, 0, pm.width, pm.height>>] >>
    ELSE LET withIds == [k \in DOMAIN secs |->
                            [name |-> secs[k].name, content_type |-> secs[k].content_type,
                             region |-> secs[k].region, element_ids |-> << >>]]
             inside == SelectSeq(pm.elements,
                          LAMBDA el : \E si \in DOMAIN secs :
                              ContainsPoint(secs[si].region, Centroid(el.bbox)[1], Centroid(el.bbox)[2]))
         IN  Dedup(AssignLoop(inside, 1, withIds), 1, {})

\* an assignment without the synthetic full-page region
AssignNoPage(pm, secs) ==
    IF secs = << >>
    THEN << >>
    ELSE LET withIds == [k \in DOMAIN secs |->
                            [name |-> secs[k].name, content_type |-> secs[k].content_type,
                             region |-> secs[k].region, element_ids |-> << >>]]
         IN  Dedup(AssignLoop(pm.elements, 1, withIds), 1, {})

AssignElementsToSections(pm, secs) ==
    IF secs = << >>
    THEN << [name |-> "Page", content_type |-> "mixed",
             element_ids |-> [k \in DOMAIN pm.elements |-> pm.elements[k].id],
             region |-> <<0, 0, pm.width, pm.height>>] >>
    ELSE LET withIds == [k \in DOMAIN secs |->
                            [name |-> secs[k].name, content_type |-> secs[k].content_type,
                             region |-> secs[k].region, element_ids |-> << >>]]
         IN  Dedup(AssignLoop(pm.elements, 1, withIds), 1, {})

(***************************************************************************)
(* Apply a layout to a page                                                *)
(***************************************************************************)
\* header_separator_y when no separator was detected (None); a detected one is
\* never negative
NoSep == 0 - 1

\* key of the two sorts by reading order: (top, left)
ReadingKeyLeq(a, b) == a[2] < b[2] \/ (a[2] = b[2] /\ a[1] <= b[1])

RECURSIVE InsertByRegion(_, _)
\* s with section x put after the last section that is not below it (stable)
InsertByRegion(s, x) ==
    IF s = << >> THEN <<x>>
    ELSE IF ReadingKeyLeq(s[Len(s)].region, x.region)
         THEN Append(s, x)
         ELSE Append(InsertByRegion(SubSeq(s, 1, Len(s) - 1), x), s[Len(s)])

RECURSIVE SortByRegion(_)
SortByRegion(s) ==
    IF s = << >> THEN << >>
    ELSE InsertByRegion(SortByRegion(SubSeq(s, 1, Len(s) - 1)), s[Len(s)])

\* a header clip that does not look at the content type
ClipHeaderAnyType(s, sep) ==
    IF sep # NoSep /\ s.region[2] < sep /\ s.region[4] > sep
    THEN [s EXCEPT !.region = <<s.region[1], s.region[2], s.region[3], sep>>]
    ELSE s

\* the header clip of one proposal
ClipHeader(s, sep) ==
    IF sep # NoSep /\ s.content_type = "metadata" /\ s.region[2] < sep /\ s.region[4] > sep
    THEN [s EXCEPT !.region = <<s.region[1], s.region[2], s.region[3], sep>>]
    ELSE s

\* the bbox of the element with identity eid
ElementBbox(pm, eid) ==
    (CHOOSE e \in {pm.elements[k] : k \in DOMAIN pm.elements} : e.id = eid).bbox

RecomputeRegion(pm, s) ==
    LET known == SelectSeq(s.element_ids,
                     LAMBDA eid : \E k \in DOMAIN pm.elements : pm.elements[k].id = eid)
    IN  IF known # << >>
        THEN [s EXCEPT !.region = BboxUnion([k \in DOMAIN known |-> ElementBbox(pm, known[k])])]
        ELSE s

\* the bbox a section is output with by to_sections of analyze_page_pair
ComputeBbox(pm, s) ==
    LET known == SelectSeq(s.element_ids,
                     LAMBDA eid : \E k \in DOMAIN pm.elements : pm.elements[k].id = eid)
    IN  IF known = << >> THEN <<0, 0, 0, 0>>
        ELSE BboxUnion([k \in DOMAIN known |-> ElementBbox(pm, known[k])])

\* the copy of the layout after the header clip
ClippedLayout(pm, lay) == [k \in DOMAIN lay |-> ClipHeader(lay[k], pm.header_separator_y)]

\* the layout after the header clip and the first overlap resolution
ResolvedLayout(pm, lay) == ResolveOverlaps(ClippedLayout(pm, lay))

\* the sections after assignment and the recomputation of their regions
RecomputedSections(pm, lay) ==
    LET assigned == AssignElementsToSections(pm, ResolvedLayout(pm, lay))
    IN  [k \in DOMAIN assigned |-> RecomputeRegion(pm, assigned[k])]

ApplyLayoutToPage(pm, lay) ==
    LET resolved2 == ResolveOverlaps(RecomputedSections(pm, lay))
        kept      == SelectSeq(resolved2, LAMBDA s : s.element_ids # << >>)
    IN  SortByRegion(kept)

(***************************************************************************)
(* Normalisation of the oracle's proposals (_normalize_sections)           *)
(*                                                                         *)
(* A raw proposal is [kind, name, content_type, region]: kind "dict" for a *)
(* JSON object, region a tuple of any length.  Names are short, so the     *)
(* cut name[:200] keeps them whole.                                        *)
(***************************************************************************)
\* an entry of a region list that float() does not accept (a JSON null, a
\* string that is not a number, a nested list); the numbers of the model's
\* regions are never negative
NonNumeric == 0 - 99

ALLOWED_CONTENT_TYPES == {"table", "chart", "text_block", "metadata", "mixed"}

\* str.strip() on the names of the model
Strip(name) ==
    CASE name = " "       -> ""
      [] name = " Notes " -> "Notes"
      [] OTHER            -> name

ClipRegion(region, w, h) ==
    LET x0 == Max2(0, Min2(region[1], w))
        x1 == Max2(0, Min2(region[3], w))
        y0 == Max2(0, Min2(region[2], h))
        y1 == Max2(0, Min2(region[4], h))
    IN  << IF x1 < x0 THEN x1 ELSE x0, IF y1 < y0 THEN y1 ELSE y0,
           IF x1 < x0 THEN x0 ELSE x1, IF y1 < y0 THEN y0 ELSE y1 >>

\* whether the loop of _normalize_sections appends the proposal
Normalizable(s) ==
    /\ s.kind = "dict"
    /\ Strip(s.name) # ""
    /\ Len(s.region) = 4

NormalizeOne(s, w, h) ==
    [name |-> Strip(s.name),
     content_type |-> IF s.content_type \in ALLOWED_CONTENT_TYPES THEN s.content_type ELSE "mixed",
     region |-> ClipRegion(s.region, w, h)]

\* float(x) raises ValueError or TypeError for an entry of the region list
\* of a proposal that got as far as the call of _clip_region
NormalizeRaises(raw) ==
    \E k \in DOMAIN raw :
        /\ Normalizable(raw[k])
        /\ \E c \in DOMAIN raw[k].region : raw[k].region[c] = NonNumeric

NormalizeSections(raw, w, h) ==
    LET kept == SelectSeq(raw, Normalizable)
    IN  SortByRegion([k \in DOMAIN kept |-> NormalizeOne(kept[k], w, h)])

(***************************************************************************)
(* The section matcher (_match_sections of section_analysis_pipeline.py)   *)
(*                                                                         *)
(* fuzz.WRatio is library code: the model takes its scores from the table  *)
(* wratio, a name scoring 100 against itself.  process.extractOne returns  *)
(* the first choice of the best score.                                     *)
(***************************************************************************)
MATCH_THRESHOLD == 75

Range(s) == {s[k] : k \in DOMAIN s}

Available(names, used_test) == SelectSeq(names, LAMBDA tn : tn \notin used_test)

\* process.extractOne(rn, available, scorer=fuzz.WRatio): <<choice, score>>
ExtractOne(rn, available, score) ==
    LET best == CHOOSE k \in DOMAIN available :
                    /\ \A j \in DOMAIN available : score[rn][available[j]] <= score[rn][available[k]]
                    /\ \A j \in 1..(k - 1) : score[rn][available[j]] < score[rn][available[k]]
    IN  <<available[best], score[rn][available[best]]>>

\* a matcher that forgets which test names it has paired
UsedTestUnchanged(used_test, tn) == used_test

\* used_test.add(tn)
UsedTestAdd(used_test, tn) == used_test \cup {tn}

RECURSIVE MatchLoop(_, _, _, _, _, _)
\* the `for rn in ref_names` loop, from entry k on: <<matched, used_test>>
MatchLoop(names_ref, k, names_test, score, matched, used_test) ==
    IF k > Len(names_ref) THEN <<matched, used_test>>
    ELSE LET rn == names_ref[k]
             available == Available(names_test, used_test)
             m == ExtractOne(rn, available, score)
         IN  IF rn \in Range(names_test) /\ rn \notin used_test
             THEN MatchLoop(names_ref, k + 1, names_test, score,
                            Append(matched, <<rn, rn>>), UsedTestAdd(used_test, rn))
             ELSE IF available # << >> /\ m[2] >= MATCH_THRESHOLD
             THEN MatchLoop(names_ref, k + 1, names_test, score,
                            Append(matched, <<rn, m[1]>>), UsedTestAdd(used_test, m[1]))
             ELSE MatchLoop(names_ref, k + 1, names_test, score, matched, used_test)

MatchSections(names_ref, names_test, score) ==
    LET looped == MatchLoop(names_ref, 1, names_test, score, << >>, {})
        matched == looped[1]
        used_test == looped[2]
    IN  [matched |-> matched,
         ref_only |-> SelectSeq(names_ref,
                         LAMBDA rn : ~\E p \in DOMAIN matched : matched[p][1] = rn),
         test_only |-> SelectSeq(names_test, LAMBDA tn : tn \notin used_test)]

\* the section names of a page; _analyze_page_sections passes the keys of a
\* dict, so no list holds a name twice
MaxNames == 3

SectionNameSet == {"Summary", "Summary Table", "Holdings"}

NameLists ==
    {s \in UNION {[1..n -> SectionNameSet] : n \in 0..MaxNames} :
        \A i \in DOMAIN s, j \in DOMAIN s : s[i] = s[j] => i = j}

\* below the threshold, at it, above it
Scores == {60, 75, 90}

NamePairs == {{a, b} : a \in SectionNameSet, b \in SectionNameSet} \ {{a} : a \in SectionNameSet}

\* the score tables: symmetric, and 100 on equal names
ScoreTables ==
    {[a \in SectionNameSet |-> [b \in SectionNameSet |-> IF a = b THEN 100 ELSE t[{a, b}]]] :
        t \in [NamePairs -> Scores]}

\* _match_sections has not been called
NoMatchCall ==
    /\ ref_names = << >>
    /\ test_names = << >>
    /\ wratio = << >>
    /\ match = [pc |-> "idle", matched |-> << >>, ref_only |-> << >>, test_only |-> << >>]

\* extract_page_map has not been called
\* no loop is being followed
NoLoop == [fn |-> "none", items |-> << >>, free |-> << >>, changed |-> FALSE, passes |-> 0]

\* the loop as it is entered: changed = True, no pass made yet
LoopStart(fn, items, free) ==
    [fn |-> fn, items |-> items, free |-> free, changed |-> TRUE, passes |-> 0]

NoExtraction ==
    /\ raw_page = [width |-> 0, height |-> 0, elements |-> << >>]
    /\ extracted = << >>
    /\ xpc = "idle"
    /\ separator = NoSep
    /\ loop = NoLoop

(***************************************************************************)
(* The job store (services/job_store.py)                                   *)
(*                                                                         *)
(* A job is the JobMetadata record, with the fields the stages use.  The   *)
(* row model_dump writes for a job and the job model_validate reads back   *)
(* from it carry the same fields with the same values, so a snapshot is a  *)
(* sequence of job records.  A file holds "absent" (no file), "partial"    *)
(* (a write cut short, not parseable as JSON) or a snapshot.               *)
(***************************************************************************)
MaxJobs == 2

MaxRuns == 2

MaxRestarts == 1

\* the most POST requests the process accepts between two starts
MaxRequests == 3

\* the most pages a document of the fan-out inputs has
MaxPages == 3

\* a PdfPair, as far as the pipelines read it
PdfPair(pair_id, page_count_reference, page_count_test) ==
    [pair_id |-> pair_id, page_count_reference |-> page_count_reference,
     page_count_test |-> page_count_test]

\* the pairs of a new job: no file name matched, or one did, its reference of
\* one page and its test document of two
PairLists == { << >>, << PdfPair(1, 1, 2) >> }

RUN_INTERRUPTED_ERROR == "Interrupted by backend restart"

Stages == {"detection", "global", "section"}

StatusField(stage) ==
    CASE stage = "detection" -> "analysis_status"
      [] stage = "global"    -> "global_analysis_status"
      [] stage = "section"   -> "section_analysis_status"

ProgressField(stage) ==
    CASE stage = "detection" -> "analysis_progress"
      [] stage = "global"    -> "global_analysis_progress"
      [] stage = "section"   -> "section_analysis_progress"

TotalField(stage) ==
    CASE stage = "detection" -> "analysis_total"
      [] stage = "global"    -> "global_analysis_total"
      [] stage = "section"   -> "section_analysis_total"

\* JobMetadata as create_job builds it: every stage idle, 0 of 0
JobMetadata(job_id, pairs, created_at) ==
    [job_id |-> job_id, pairs |-> pairs, created_at |-> created_at,
     analysis_status |-> "idle", analysis_progress |-> 0, analysis_total |-> 0,
     analysis_error |-> "none",
     global_analysis_status |-> "idle", global_analysis_progress |-> 0,
     global_analysis_total |-> 0,
     section_analysis_status |-> "idle", section_analysis_progress |-> 0,
     section_analysis_total |-> 0]

\* the error messages a job record holds for a stage: analysis_error is the
\* only error field, and it belongs to the detection stage
ErrorsOf(job, stage) ==
    IF stage = "detection" /\ job.analysis_error # "none" THEN {job.analysis_error} ELSE {}

JobIds(js) == {js[k].job_id : k \in DOMAIN js}

\* get_job: the record stored under job_id
GetJob(js, job_id) == js[CHOOSE k \in DOMAIN js : js[k].job_id = job_id]

\* the dict after _jobs[job.job_id] = job: a known key keeps its place
PutJob(js, job) ==
    IF job.job_id \in JobIds(js)
    THEN [k \in DOMAIN js |-> IF js[k].job_id = job.job_id THEN job ELSE js[k]]
    ELSE Append(js, job)

RECURSIVE InsertByCreated(_, _)
\* s, newest first, with x put behind every job that is not older than x
InsertByCreated(s, x) ==
    IF s = << >> THEN <<x>>
    ELSE IF s[Len(s)].created_at >= x.created_at
         THEN Append(s, x)
         ELSE Append(InsertByCreated(SubSeq(s, 1, Len(s) - 1), x), s[Len(s)])

RECURSIVE NewestFirst(_)
\* sorted(..., key=created_at, reverse=True): stable, equal keys keep their order
NewestFirst(js) ==
    IF js = << >> THEN << >>
    ELSE InsertByCreated(NewestFirst(SubSeq(js, 1, Len(js) - 1)), js[Len(js)])

\* the payload _persist_all builds
SnapshotPayload(js) == NewestFirst(js)

\* A file of the data directory: missing, cut off in the middle of a write, or
\* the whole text of one write_text

AbsentFile == [state |-> "absent", rows |-> << >>]

PartialFile == [state |-> "partial", rows |-> << >>]

CompleteFile(rows) == [state |-> "complete", rows |-> rows]

\* the two files once _persist_all(js) has returned
PersistAll(js) == [file |-> CompleteFile(SnapshotPayload(js)), temp |-> AbsentFile]

\* a _persist_all that writes the canonical file directly
CrashPointsInPlace(js, file, temp) ==
    { [file |-> PartialFile, temp |-> temp],
      [file |-> CompleteFile(SnapshotPayload(js)), temp |-> temp] }

\* the two files as a stop of the process inside _persist_all(js) can leave
\* them: during write_text, or between write_text and replace
CrashPoints(js, file, temp) ==
    { [file |-> file, temp |-> PartialFile],
      [file |-> file, temp |-> CompleteFile(SnapshotPayload(js))] }

\* a reconciliation that forgets the section stage
ReconcileJobTwoStages(job) ==
    LET a == IF job.analysis_status = "running"
             THEN [job EXCEPT !.analysis_status = "failed",
                              !.analysis_error = RUN_INTERRUPTED_ERROR]
             ELSE job
    IN  IF a.global_analysis_status = "running"
        THEN [a EXCEPT !.global_analysis_status = "failed"]
        ELSE a

\* the body of the loop of _reconcile_running_jobs
ReconcileJob(job) ==
    LET a == IF job.analysis_status = "running"
             THEN [job EXCEPT !.analysis_status = "failed",
                              !.analysis_error = RUN_INTERRUPTED_ERROR]
             ELSE job
        g == IF a.global_analysis_status = "running"
             THEN [a EXCEPT !.global_analysis_status = "failed"]
             ELSE a
    IN  IF g.section_analysis_status = "running"
        THEN [g EXCEPT !.section_analysis_status = "failed"]
        ELSE g

ReconcileRunningJobs(js) == [k \in DOMAIN js |-> ReconcileJob(js[k])]

RECURSIVE LoadRows(_, _)
\* the loop of _load_from_disk: _jobs[job.job_id] = job for every row
LoadRows(raw, js) ==
    IF raw = << >> THEN js ELSE LoadRows(Tail(raw), PutJob(js, Head(raw)))

\* _jobs when _load_from_disk reaches _reconcile_running_jobs.  A missing file
\* returns before, and one that does not parse raises into the except branch:
\* both leave _jobs empty.
LoadFromDisk(file) ==
    IF file.state = "complete" THEN LoadRows(file.rows, << >>) ELSE << >>

\* the process starts on the two files: _load_from_disk, which reconciles and,
\* when that changed a job, persists
Boot(file, temp) ==
    LET loaded == LoadFromDisk(file)
        reconciled == ReconcileRunningJobs(loaded)
    IN  /\ jobs' = reconciled
        /\ runs' = << >>
        /\ results' = {}
        /\ restarts' = restarts + 1
        /\ jobs_file' = IF reconciled # loaded THEN PersistAll(reconciled).file ELSE file
        /\ temp_file' = IF reconciled # loaded THEN PersistAll(reconciled).temp ELSE temp

\* The end of one step of the event loop that leaves memory as (js, rs) and,
\* when `persist`, has called _persist_all: either the step completes, or the
\* process is stopped inside _persist_all and started again.
StepStoring(js, rs, res, persist) ==
    \/ /\ jobs' = js
       /\ runs' = rs
       /\ results' = res
       /\ jobs_file' = IF persist THEN PersistAll(js).file ELSE jobs_file
       /\ temp_file' = IF persist THEN PersistAll(js).temp ELSE temp_file
       /\ UNCHANGED restarts
    \/ /\ persist
       /\ restarts < MaxRestarts
       /\ \E c \in CrashPoints(js, jobs_file, temp_file) : Boot(c.file, c.temp)

\* the same for a step that calls no store() of a result store
Step(js, rs, persist) == StepStoring(js, rs, results, persist)

\* the key under which the unit u of a run stores its result
ResultKey(run, u) == <<run.job_id, run.stage, run.work_items[u][1], run.work_items[u][2]>>

\* the keys of the result stores after bounded() is through its try statement:
\* store() is the last call of the unit operation's branch, and is not
\* reached when the unit operation raises
Stored(res, run, u, outcome) ==
    IF outcome = "stored"
    THEN res \cup {ResultKey(run, u)}
    ELSE res

(***************************************************************************)
(* The stage pipelines (services/*_pipeline.py) and the requests that      *)
(* start them (routers/analysis.py)                                        *)
(*                                                                         *)
(* A run is the task create_task made for run_analysis, run_global_analysis*)
(* or run_section_analysis.  Its pc is "scheduled" until the task first    *)
(* runs, "gather" while it awaits its units, "ended" after it returned.    *)
(* A unit is one call of bounded(): "pending" until it holds the           *)
(* semaphore, "executing" while the unit operation is awaited, then        *)
(* "stored" (the operation returned) or "raised" (it raised and the        *)
(* except branch logged it).                                               *)
(***************************************************************************)
MAX_CONCURRENCY == 4

PROGRESS_PERSIST_INTERVAL == 10

\* only run_analysis never calls persist_job
Persists(stage) == stage # "detection"

RECURSIVE WorkItemsOfReference(_)
\* work items counted from the reference document alone
WorkItemsOfReference(pairs) ==
    IF pairs = << >> THEN << >>
    ELSE LET pair == Head(pairs)
         IN  [pg \in 1..pair.page_count_reference |-> <<pair.pair_id, pg>>]
                 \o WorkItemsOfReference(Tail(pairs))

RECURSIVE WorkItems(_)
\* the work items of the pairs, in the order the two loops append them
WorkItems(pairs) ==
    IF pairs = << >> THEN << >>
    ELSE LET pair == Head(pairs)
             max_pages == Max2(pair.page_count_reference, pair.page_count_test)
         IN  [pg \in 1..max_pages |-> <<pair.pair_id, pg>>] \o WorkItems(Tail(pairs))

NewRun(job_id, stage) ==
    [job_id |-> job_id, stage |-> stage, pc |-> "scheduled",
     work_items |-> << >>, units |-> << >>, completed |-> 0, semaphore |-> 0]

\* what is kept of a run whose task has returned
EndedRun(run) ==
    [job_id |-> run.job_id, stage |-> run.stage, pc |-> "ended",
     work_items |-> << >>, units |-> << >>, completed |-> 0, semaphore |-> 0]

InFlight(run) == run.pc \in {"scheduled", "gather"}

Finished(unit) == unit \in {"stored", "raised"}

\* the bounded() tasks of a run go on while run_* awaits gather, and also
\* after gather has passed the exception of one of them on to run_* (pc
\* "except": run_* is about to enter its except branch; "failed": it has
\* left it): gather does not cancel the others
UnitsRunning(run) == run.pc \in {"gather", "except", "failed"}

\* a run_* task that reached its gather with no unit: the awaited future is
\* already done, so the task goes on to its end in the same step of the loop
\* and nothing else of the process runs before
MidStep(rs) ==
    \E r \in DOMAIN rs : rs[r].pc = "gather" /\ rs[r].units = << >>

\* POST /jobs: create_job
CreateJob ==
    /\ ~MidStep(runs)
    /\ created < MaxJobs
    /\ Len(jobs) + Len(runs) < MaxRequests
    /\ \E pairs \in PairLists, t \in {now, now + 1} :
          /\ now' = t
          /\ created' = created + 1
          /\ Step(PutJob(jobs, JobMetadata(created + 1, pairs, t)), runs, TRUE)
    /\ UNCHANGED pureVars

\* a start request that does not change the state answers 404 or 409
StartAccepted(job, stage) ==
    /\ job[StatusField(stage)] # "running"
    /\ stage = "section" => job.analysis_status = "done"

\* POST /jobs/{job_id}/compare, /global-analyze, /section-analyze
StartRequest(job_id, stage) ==
    /\ ~MidStep(runs)
    /\ Len(runs) < MaxRuns
    /\ Len(jobs) + Len(runs) < MaxRequests
    /\ job_id \in JobIds(jobs)
    /\ StartAccepted(GetJob(jobs, job_id), stage)
    /\ Step(jobs, Append(runs, NewRun(job_id, stage)), FALSE)
    /\ UNCHANGED <<now, created>>
    /\ UNCHANGED pureVars

\* a head of run_* that clears the progress of every stage of the job
StartedJobClearingAll(job, stage, n) ==
    [job EXCEPT ![StatusField(stage)] = "running",
                ![TotalField(stage)] = n,
                !.analysis_progress = 0,
                !.global_analysis_progress = 0,
                !.section_analysis_progress = 0]

\* the job as the head of run_* leaves it
StartedJob(job, stage, n) ==
    [job EXCEPT ![StatusField(stage)] = "running",
                ![TotalField(stage)] = n,
                ![ProgressField(stage)] = 0]

\* a run_section_analysis that does not look at the detection status
NeverRefused(run, job) == FALSE

\* run_section_analysis returns at once: section detection is not done
SectionRefused(run, job) ==
    run.stage = "section" /\ job.analysis_status # "done"

\* run_*, from its first line to its await of gather
RunStart(r) ==
    /\ ~MidStep(runs)
    /\ r \in DOMAIN runs
    /\ runs[r].pc = "scheduled"
    /\ LET run == runs[r]
           job == GetJob(jobs, run.job_id)
           work_items == WorkItems(job.pairs)
       IN  IF SectionRefused(run, job)
           THEN Step(jobs, [runs EXCEPT ![r] = EndedRun(run)], FALSE)
           ELSE Step(PutJob(jobs, StartedJob(job, run.stage, Len(work_items))),
                     [runs EXCEPT ![r] = [run EXCEPT !.pc = "gather",
                                                     !.work_items = work_items,
                                                     !.units = [u \in DOMAIN work_items |-> "pending"],
                                                     !.completed = 0,
                                                     !.semaphore = MAX_CONCURRENCY]],
                     Persists(run.stage))
    /\ UNCHANGED <<now, created>>
    /\ UNCHANGED pureVars

\* a bounded() that enters whatever the semaphore's value
AcquireUnbounded(run) == [ok |-> TRUE, value |-> run.semaphore]

\* `async with semaphore`: entered only while the value is positive
Acquire(run) == [ok |-> run.semaphore > 0, value |-> run.semaphore - 1]

\* bounded(): the semaphore is acquired and the unit operation is called
UnitEnter(r, u) ==
    /\ ~MidStep(runs)
    /\ r \in DOMAIN runs
    /\ UnitsRunning(runs[r])
    /\ u \in DOMAIN runs[r].units
    /\ runs[r].units[u] = "pending"
    /\ Acquire(runs[r]).ok
    /\ Step(jobs, [runs EXCEPT ![r].units[u] = "executing",
                               ![r].semaphore = Acquire(runs[r]).value], FALSE)
    /\ UNCHANGED <<now, created>>
    /\ UNCHANGED pureVars

\* `completed += 1` of the finally clause
Counted(completed, outcome) == completed + 1

\* bounded(): the unit operation returns or raises; the finally clause counts
\* the unit, and the semaphore is released
UnitFinish(r, u, outcome) ==
    /\ ~MidStep(runs)
    /\ r \in DOMAIN runs
    /\ UnitsRunning(runs[r])
    /\ u \in DOMAIN runs[r].units
    /\ runs[r].units[u] = "executing"
    /\ LET run == runs[r]
           job == GetJob(jobs, run.job_id)
           completed == Counted(run.completed, outcome)
       IN  StepStoring(PutJob(jobs, [job EXCEPT ![ProgressField(run.stage)] = completed]),
                [runs EXCEPT ![r].units[u] = outcome,
                             ![r].completed = completed,
                             ![r].semaphore = run.semaphore + 1],
                Stored(results, run, u, outcome),
                /\ Persists(run.stage)
                /\ \/ completed = job[TotalField(run.stage)]
                   \/ completed % PROGRESS_PERSIST_INTERVAL = 0)
    /\ UNCHANGED <<now, created>>
    /\ UNCHANGED pureVars

\* run_*, from the return of gather to its end.  Every bounded() catches what
\* its unit operation raises, so gather returns once every unit is finished.
RunEnd(r) ==
    /\ r \in DOMAIN runs
    /\ runs[r].pc = "gather"
    /\ \A u \in DOMAIN runs[r].units : Finished(runs[r].units[u])
    /\ LET run == runs[r]
           job == GetJob(jobs, run.job_id)
       IN  Step(PutJob(jobs, [job EXCEPT ![StatusField(run.stage)] = "done"]),
                [runs EXCEPT ![r] = EndedRun(run)],
                Persists(run.stage))
    /\ UNCHANGED <<now, created>>
    /\ UNCHANGED pureVars

\* the process is stopped between two steps of the event loop and started again
Restart ==
    /\ ~MidStep(runs)
    /\ restarts < MaxRestarts
    /\ Boot(jobs_file, temp_file)
    /\ UNCHANGED <<now, created>>
    /\ UNCHANGED pureVars

\* the store of a process started on an empty data directory
InitStore ==
    /\ jobs = << >>
    /\ jobs_file = AbsentFile
    /\ temp_file = AbsentFile
    /\ runs = << >>
    /\ now = 0
    /\ created = 0
    /\ restarts = 0
    /\ results = {}

\* no page is being resolved
Init ==
    /\ InitStore
    /\ page_map = [width |-> 0, height |-> 0, header_separator_y |-> NoSep, elements |-> << >>]
    /\ layout = << >>
    /\ sections = << >>
    /\ lpc = "input"
    /\ raw_sections = << >>
    /\ NoMatchCall
    /\ NoExtraction

Next ==
    \/ CreateJob
    \/ \E job_id \in JobIds(jobs), stage \in Stages : StartRequest(job_id, stage)
    \/ \E r \in DOMAIN runs : RunStart(r)
    \/ \E r \in DOMAIN runs : \E u \in DOMAIN runs[r].units : UnitEnter(r, u)
    \/ \E r \in DOMAIN runs : \E u \in DOMAIN runs[r].units :
          \E outcome \in {"stored", "raised"} : UnitFinish(r, u, outcome)
    \/ \E r \in DOMAIN runs : RunEnd(r)
    \/ Restart

Spec == Init /\ [][Next]_vars

(***************************************************************************)
(* The same store and pipelines on a data directory that can refuse a      *)
(* write: _persist_all raises OSError from mkdir, write_text or replace.   *)
(* Raised in the finally clause of bounded() it escapes the fan-out.       *)
(***************************************************************************)
\* str(e) of the OSError
OSErrorMessage == "[Errno 28] No space left on device"

\* the two files as a _persist_all(js) that raises can leave them
PersistRaises(js, file, temp) ==
    {[file |-> file, temp |-> temp]} \cup CrashPoints(js, file, temp)

\* persist_job is reached by the finally clause of bounded()
PersistDue(run, job, completed) ==
    /\ Persists(run.stage)
    /\ \/ completed = job[TotalField(run.stage)]
       \/ completed % PROGRESS_PERSIST_INTERVAL = 0

\* bounded(): the unit is counted and persist_job raises; the exception
\* leaves bounded() and gather hands it to run_*
UnitFinishPersistRaises(r, u, outcome) ==
    /\ r \in DOMAIN runs
    /\ UnitsRunning(runs[r])
    /\ u \in DOMAIN runs[r].units
    /\ runs[r].units[u] = "executing"
    /\ LET run == runs[r]
           job == GetJob(jobs, run.job_id)
           completed == Counted(run.completed, outcome)
           js == PutJob(jobs, [job EXCEPT ![ProgressField(run.stage)] = completed])
       IN  /\ PersistDue(run, job, completed)
           /\ jobs' = js
           /\ runs' = [runs EXCEPT ![r].units[u] = outcome,
                                   ![r].completed = completed,
                                   ![r].semaphore = run.semaphore + 1,
                                   ![r].pc = IF run.pc = "gather" THEN "except" ELSE run.pc]
           /\ results' = Stored(results, run, u, outcome)
           /\ \E c \in PersistRaises(js, jobs_file, temp_file) :
                  jobs_file' = c.file /\ temp_file' = c.temp
    /\ UNCHANGED <<now, created, restarts>>
    /\ UNCHANGED pureVars

\* the job as the except branch of run_* leaves it
ExceptJob(job, stage, message) ==
    IF stage = "detection"
    THEN [job EXCEPT !.analysis_status = "failed", !.analysis_error = message]
    ELSE [job EXCEPT ![StatusField(stage)] = "failed"]

\* run_*: the except branch; its own persist_job succeeds or raises again
RunExcept(r) ==
    /\ r \in DOMAIN runs
    /\ runs[r].pc = "except"
    /\ LET run == runs[r]
           js == PutJob(jobs, ExceptJob(GetJob(jobs, run.job_id), run.stage, OSErrorMessage))
           rs == [runs EXCEPT ![r].pc = "failed"]
       IN  \/ Step(js, rs, Persists(run.stage))
           \/ /\ Persists(run.stage)
              /\ jobs' = js
              /\ runs' = rs
              /\ \E c \in PersistRaises(js, jobs_file, temp_file) :
                     jobs_file' = c.file /\ temp_file' = c.temp
              /\ UNCHANGED <<restarts, results>>
    /\ UNCHANGED <<now, created>>
    /\ UNCHANGED pureVars

\* run_*: the persist_job before the fan-out raises, outside the try
\* statement: the task ends with the stage left running
RunStartPersistRaises(r) ==
    /\ ~MidStep(runs)
    /\ r \in DOMAIN runs
    /\ runs[r].pc = "scheduled"
    /\ Persists(runs[r].stage)
    /\ LET run == runs[r]
           job == GetJob(jobs, run.job_id)
       IN  /\ ~SectionRefused(run, job)
           /\ jobs' = PutJob(jobs, StartedJob(job, run.stage, Len(WorkItems(job.pairs))))
           /\ runs' = [runs EXCEPT ![r] = EndedRun(run)]
           /\ \E c \in PersistRaises(jobs', jobs_file, temp_file) :
                  jobs_file' = c.file /\ temp_file' = c.temp
    /\ UNCHANGED <<now, created, restarts, results>>
    /\ UNCHANGED pureVars

\* run_*: gather returns, the stage is set to done and persist_job raises
\* inside the try statement, so the except branch follows at once
RunEndPersistRaises(r) ==
    /\ r \in DOMAIN runs
    /\ runs[r].pc = "gather"
    /\ Persists(runs[r].stage)
    /\ \A u \in DOMAIN runs[r].units : Finished(runs[r].units[u])
    /\ LET run == runs[r]
           js == PutJob(jobs, ExceptJob(GetJob(jobs, run.job_id), run.stage, OSErrorMessage))
           rs == [runs EXCEPT ![r] = EndedRun(run)]
       IN  \/ Step(js, rs, TRUE)
           \/ /\ jobs' = js
              /\ runs' = rs
              /\ \E c \in PersistRaises(js, jobs_file, temp_file) :
                     jobs_file' = c.file /\ temp_file' = c.temp
              /\ UNCHANGED <<restarts, results>>
    /\ UNCHANGED <<now, created>>
    /\ UNCHANGED pureVars

NextIO ==
    \/ Next
    \/ \E r \in DOMAIN runs : RunStartPersistRaises(r)
    \/ \E r \in DOMAIN runs : RunEndPersistRaises(r)
    \/ \E r \in DOMAIN runs : \E u \in DOMAIN runs[r].units :
          \E outcome \in {"stored", "raised"} : UnitFinishPersistRaises(r, u, outcome)
    \/ \E r \in DOMAIN runs : RunExcept(r)

SpecIO == Init /\ [][NextIO]_vars

(***************************************************************************)
(* One run of one stage over jobs of up to two pairs and 2 * MaxPages work *)
(* items: the job has been created and persisted, the start request has    *)
(* been accepted and its task is scheduled.                                *)
(***************************************************************************)
PageCounts == 1..MaxPages

FanoutPairLists ==
    { << >> }
    \cup { << PdfPair(1, a, b) >> : a \in PageCounts, b \in PageCounts }
    \cup { << PdfPair(1, ab[1], ab[2]), PdfPair(2, c, 1) >> :
              ab \in PageCounts \X PageCounts, c \in PageCounts }

\* the job of a section run has had its detection run
DetectedJob(job) ==
    LET n == Len(WorkItems(job.pairs))
    IN  [job EXCEPT !.analysis_status = "done", !.analysis_total = n,
                    !.analysis_progress = n]

InitFanout ==
    /\ \E pairs \in FanoutPairLists, stage \in Stages :
          LET job == JobMetadata(1, pairs, 0)
          IN  /\ jobs = IF stage = "section" THEN <<DetectedJob(job)>> ELSE <<job>>
              /\ jobs_file = PersistAll(<<job>>).file
              /\ temp_file = PersistAll(<<job>>).temp
              /\ runs = <<NewRun(1, stage)>>
    /\ now = 0
    /\ created = 1
    /\ restarts = 0
    /\ results = {}
    /\ page_map = [width |-> 0, height |-> 0, header_separator_y |-> NoSep, elements |-> << >>]
    /\ layout = << >>
    /\ sections = << >>
    /\ lpc = "input"
    /\ raw_sections = << >>
    /\ NoMatchCall
    /\ NoExtraction

NextFanout ==
    \/ \E r \in DOMAIN runs : RunStart(r)
    \/ \E r \in DOMAIN runs : \E u \in DOMAIN runs[r].units : UnitEnter(r, u)
    \/ \E r \in DOMAIN runs : \E u \in DOMAIN runs[r].units :
          \E outcome \in {"stored", "raised"} : UnitFinish(r, u, outcome)
    \/ \E r \in DOMAIN runs : RunEnd(r)

SpecFanout == InitFanout /\ [][NextFanout]_vars

(***************************************************************************)
(* One call of _match_sections                                             *)
(***************************************************************************)
InitMatch ==
    /\ ref_names \in NameLists
    /\ test_names \in NameLists
    /\ wratio \in ScoreTables
    /\ match = [pc |-> "idle", matched |-> << >>, ref_only |-> << >>, test_only |-> << >>]
    /\ InitStore
    /\ page_map = [width |-> 0, height |-> 0, header_separator_y |-> NoSep, elements |-> << >>]
    /\ layout = << >>
    /\ sections = << >>
    /\ lpc = "input"
    /\ raw_sections = << >>
    /\ NoExtraction

MatchCall ==
    /\ match.pc = "idle"
    /\ LET r == MatchSections(ref_names, test_names, wratio)
       IN  match' = [pc |-> "matched", matched |-> r.matched,
                     ref_only |-> r.ref_only, test_only |-> r.test_only]
    /\ UNCHANGED <<ref_names, test_names, wratio>>
    /\ UNCHANGED storeVars
    /\ UNCHANGED extractVars
    /\ UNCHANGED layoutVars

NextMatch == MatchCall

SpecMatch == InitMatch /\ [][NextMatch]_vars

(***************************************************************************)
(* The inputs of the region resolver: a page map as extract_page_map       *)
(* returns it (elements in reading order, unique identities) and a layout  *)
(* as _normalize_sections returns it (clamped to the page, in reading      *)
(* order).                                                                 *)
(***************************************************************************)
MaxElements == 4

MaxRegions == 3

\* One unit of the grid is wider than PROXIMITY_GAP, so two blocks that
\* _merge_nearby left apart are apart by a whole unit along some axis.
XCoord == 0..5

YCoord == 0..3

PageWidth == SetMax(XCoord)

PageHeight == SetMax(YCoord)

Separated(a, b) == a[1] > b[3] \/ b[1] > a[3] \/ a[2] > b[4] \/ b[2] > a[4]

\* merged blocks, the last two horizontal rules
ElementBoxes ==
    { <<0, 0, 1, 1>>, <<0, 0, 3, 1>>, <<2, 0, 3, 1>>, <<4, 0, 5, 1>>, <<1, 0, 3, 2>>,
      <<4, 0, 5, 3>>, <<0, 2, 1, 3>>, <<2, 2, 3, 3>>, <<0, 2, 3, 3>>, <<0, 2, 3, 2>>,
      <<0, 3, 1, 3>> }

\* proposals clamped to the page, the last one flattened by the clamp
RegionBoxes ==
    { <<0, 0, 1, 3>>, <<1, 0, 2, 1>>, <<2, 0, 5, 3>>, <<4, 0, 5, 3>>,
      <<0, 0, 2, 2>>, <<0, 2, 5, 3>>, <<1, 2, 3, 3>>, <<3, 1, 5, 2>>, <<5, 0, 5, 3>> }

SectionNames == <<"A", "B", "C", "D", "E">>

InReadingOrder(boxes) ==
    \A k \in 1..(Len(boxes) - 1) : ReadingKeyLeq(boxes[k], boxes[k + 1])

BoxLists(S, n) ==
    UNION {{bs \in [1..m -> S] : InReadingOrder(bs)} : m \in 0..n}

\* the element lists extract_page_map can return: in reading order, no two
\* blocks within the proximity gap of each other
ElementLists ==
    {bs \in BoxLists(ElementBoxes, MaxElements) :
        \A i, j \in DOMAIN bs : i < j => Separated(bs[i], bs[j])}

PageMaps ==
    {[width |-> PageWidth, height |-> PageHeight, header_separator_y |-> NoSep,
      elements |-> [k \in DOMAIN bs |-> [id |-> k, bbox |-> bs[k]]]] :
        bs \in ElementLists}

Layouts ==
    {[k \in DOMAIN bs |-> [name |-> SectionNames[k], content_type |-> "table", region |-> bs[k]]] :
        bs \in BoxLists(RegionBoxes, MaxRegions)}

InitLayout ==
    /\ page_map \in PageMaps
    /\ layout \in Layouts
    /\ sections = << >>
    /\ lpc = "input"
    /\ raw_sections = << >>
    /\ InitStore
    /\ NoMatchCall
    /\ NoExtraction

\* _apply_layout_to_page, from its first line to the return of
\* _assign_elements_to_sections
AssignLayout ==
    /\ lpc = "input"
    /\ sections' = AssignElementsToSections(page_map, ResolvedLayout(page_map, layout))
    /\ lpc' = "assigned"
    /\ UNCHANGED <<page_map, layout, raw_sections>>
    /\ UNCHANGED storeVars
    /\ UNCHANGED extractVars
    /\ UNCHANGED matchVars

\* _apply_layout_to_page, from there to its return
ApplyLayout ==
    /\ lpc = "assigned"
    /\ sections' = ApplyLayoutToPage(page_map, layout)
    /\ lpc' = "applied"
    /\ UNCHANGED <<page_map, layout, raw_sections>>
    /\ UNCHANGED storeVars
    /\ UNCHANGED extractVars
    /\ UNCHANGED matchVars

NextLayout == AssignLayout \/ ApplyLayout

SpecLayout == InitLayout /\ [][NextLayout]_vars

(***************************************************************************)
(* Properties of the region resolver                                       *)
(***************************************************************************)
\* C1: no two regions returned by _apply_layout_to_page have bounding boxes
\* that intersect with positive area.
C1_NoOverlap ==
    lpc = "applied" =>
        \A i, j \in DOMAIN sections :
            i < j => RectIntersectionArea(sections[i].region, sections[j].region) = 0

\* a page on which the recomputed regions overlapped, the second resolution
\* merged them, and more than one region was returned
C1_Witness ==
    /\ lpc = "applied"
    /\ Len(sections) >= 2
    /\ Len(ResolveOverlaps(RecomputedSections(page_map, layout)))
           < Len(RecomputedSections(page_map, layout))

\* the places, <<region index, position>>, at which identity eid is listed
Occurrences(eid) ==
    {p \in UNION {{<<si, n>> : n \in DOMAIN sections[si].element_ids} : si \in DOMAIN sections} :
        sections[p[1]].element_ids[p[2]] = eid}

\* C2: every element id of the page is in the element list of exactly one
\* returned region, once.
C2_ExactlyOnce ==
    lpc = "applied" =>
        \A k \in DOMAIN page_map.elements :
            Cardinality(Occurrences(page_map.elements[k].id)) = 1

\* a page of several elements on which both resolution passes merged regions
C2_Witness ==
    /\ lpc = "applied"
    /\ Len(page_map.elements) >= 2
    /\ Len(ResolvedLayout(page_map, layout)) < Len(layout)
    /\ Len(ResolveOverlaps(RecomputedSections(page_map, layout)))
           < Len(RecomputedSections(page_map, layout))

(***************************************************************************)
(* Properties of the job store and of the stage pipelines                  *)
(***************************************************************************)
Status(job, stage) == job[StatusField(stage)]

Progress(job, stage) == job[ProgressField(stage)]

Total(job, stage) == job[TotalField(stage)]

\* the step is a start of the process: a stop at rest or inside _persist_all,
\* then _load_from_disk
ProcessStarted == restarts' # restarts

\* C3: a stage that the snapshot read at a process start records as running
\* is failed in memory once the store is loaded, and the snapshot has been
\* rewritten and shows it failed too
C3_RunningBecomesFailed ==
    [][ProcessStarted =>
          \A k \in DOMAIN jobs_file.rows, stage \in Stages :
              LET row == jobs_file.rows[k]
              IN  Status(row, stage) = "running" =>
                      /\ row.job_id \in JobIds(jobs')
                      /\ Status(GetJob(jobs', row.job_id), stage) = "failed"
                      /\ jobs_file'.state = "complete"
                      /\ row.job_id \in JobIds(jobs_file'.rows)
                      /\ Status(GetJob(jobs_file'.rows, row.job_id), stage) = "failed"]_vars

\* the process has started on a snapshot that recorded a section run as
\* running: the stage is failed in memory and in the rewritten snapshot
C3_Witness ==
    /\ restarts > 0
    /\ jobs_file.state = "complete"
    /\ \E k \in DOMAIN jobs :
          /\ jobs[k].section_analysis_status = "failed"
          /\ jobs_file.rows = <<jobs[k]>>

\* the run r returns in this step, having set its stage to done
RunEndsDone(r) ==
    /\ r \in DOMAIN runs
    /\ r \in DOMAIN runs'
    /\ runs[r].pc = "gather"
    /\ runs'[r].pc = "ended"

\* C4: a stage's progress never exceeds its total, and when a run ends with
\* status done the stage's progress equals its total
C4_ProgressBound ==
    /\ [](\A k \in DOMAIN jobs, stage \in Stages :
              Progress(jobs[k], stage) <= Total(jobs[k], stage))
    /\ [][\A r \in DOMAIN runs :
              RunEndsDone(r) =>
                  LET job == GetJob(jobs', runs[r].job_id)
                  IN  /\ Status(job, runs[r].stage) = "done"
                      /\ Progress(job, runs[r].stage) = Total(job, runs[r].stage)]_vars

\* C5: every change of a stage's status is idle -> running, running -> done or
\* running -> failed, so done and failed are final and are reached only from
\* running
C5_StatusSequence ==
    [][\A k \in DOMAIN jobs, stage \in Stages :
          jobs[k].job_id \in JobIds(jobs') =>
              LET before == Status(jobs[k], stage)
                  after == Status(GetJob(jobs', jobs[k].job_id), stage)
              IN  after # before =>
                      <<before, after>> \in { <<"idle", "running">>,
                                              <<"running", "done">>,
                                              <<"running", "failed">> }]_vars

\* C6: a start request for a stage of a job is accepted only when no run of
\* that stage of that job is in flight, so no two runs of one stage of one job
\* are in flight together
C6_OneRunInFlight ==
    \A r1 \in DOMAIN runs, r2 \in DOMAIN runs :
        (/\ r1 # r2
         /\ InFlight(runs[r1])
         /\ InFlight(runs[r2])
         /\ runs[r1].job_id = runs[r2].job_id)
            => runs[r1].stage # runs[r2].stage

Executing(run) == {u \in DOMAIN run.units : run.units[u] = "executing"}

\* C7: within one run at most 4 units are executing their unit operation
C7_AtMostFourExecuting ==
    \A r \in DOMAIN runs : Cardinality(Executing(runs[r])) <= 4

\* four units are executing and another one waits for the semaphore
C7_Witness ==
    \E r \in DOMAIN runs :
        /\ Cardinality(Executing(runs[r])) = 4
        /\ \E u \in DOMAIN runs[r].units : runs[r].units[u] = "pending"

\* the unit operation of unit u of run r raises in this step
UnitRaises(r, u) ==
    /\ runs[r].pc = "gather"
    /\ runs'[r].pc = "gather"
    /\ runs[r].units[u] = "executing"
    /\ runs'[r].units[u] = "raised"

\* C8: a unit whose operation raises adds one to the stage's progress and
\* leaves the status alone, and a run some or all of whose units raised ends
\* with status done and progress equal to total
C8_RaisedUnitsCounted ==
    [][\A r \in DOMAIN runs :
          r \in DOMAIN runs' =>
              LET run == runs[r]
                  before == GetJob(jobs, run.job_id)
                  after == GetJob(jobs', run.job_id)
              IN  /\ \A u \in DOMAIN run.units :
                         UnitRaises(r, u) =>
                             /\ Progress(after, run.stage) = Progress(before, run.stage) + 1
                             /\ Status(after, run.stage) = Status(before, run.stage)
                  /\ (/\ RunEndsDone(r)
                      /\ \E u \in DOMAIN run.units : run.units[u] = "raised")
                         => /\ Status(after, run.stage) = "done"
                            /\ Progress(after, run.stage) = Total(after, run.stage)]_vars

\* the (pair, page) units the pairs call for
UnitsOfPairs(pairs) ==
    UNION { { <<pairs[i].pair_id, pg>> :
                pg \in 1..Max2(pairs[i].page_count_reference, pairs[i].page_count_test) } :
            i \in DOMAIN pairs }

RECURSIVE SumOfMaxPages(_)
SumOfMaxPages(pairs) ==
    IF pairs = << >> THEN 0
    ELSE (IF Head(pairs).page_count_reference >= Head(pairs).page_count_test
          THEN Head(pairs).page_count_reference
          ELSE Head(pairs).page_count_test) + SumOfMaxPages(Tail(pairs))

\* C9: the work items of a run are the (pair, page) units with page in
\* 1..max(page_count_reference, page_count_test), each once, and the stage's
\* total is the sum over the pairs of that maximum
C9_WorkItems ==
    \A r \in DOMAIN runs :
        runs[r].pc = "gather" =>
            LET job == GetJob(jobs, runs[r].job_id)
                items == runs[r].work_items
            IN  /\ {items[i] : i \in DOMAIN items} = UnitsOfPairs(job.pairs)
                /\ \A i \in DOMAIN items, j \in DOMAIN items : items[i] = items[j] => i = j
                /\ Total(job, runs[r].stage) = SumOfMaxPages(job.pairs)
                /\ Total(job, runs[r].stage) = Len(items)

\* a run over two pairs, one with the longer test document and one with the
\* longer reference
C9_Witness ==
    \E r \in DOMAIN runs :
        /\ runs[r].pc = "gather"
        /\ LET pairs == GetJob(jobs, runs[r].job_id).pairs
           IN  /\ Len(pairs) = 2
               /\ pairs[1].page_count_reference < pairs[1].page_count_test
               /\ pairs[2].page_count_reference > pairs[2].page_count_test

\* rows holds each job of js once and is ordered newest first
SnapshotOf(rows, js) ==
    /\ Len(rows) = Len(js)
    /\ {rows[k] : k \in DOMAIN rows} = {js[k] : k \in DOMAIN js}
    /\ \A i \in DOMAIN rows, j \in DOMAIN rows :
           i < j => rows[i].created_at >= rows[j].created_at

\* C10: the canonical file is always absent or one complete snapshot, newest
\* first, and whenever it changes it holds exactly the jobs the store knows at
\* that call of _persist_all -- also when the process stops between the write
\* of the temporary file and the rename
C10_CanonicalSnapshot ==
    /\ [](/\ jobs_file.state \in {"absent", "complete"}
          /\ \A i \in DOMAIN jobs_file.rows, j \in DOMAIN jobs_file.rows :
                 i < j => /\ jobs_file.rows[i].created_at >= jobs_file.rows[j].created_at
                          /\ jobs_file.rows[i].job_id # jobs_file.rows[j].job_id)
    /\ [][jobs_file' # jobs_file =>
              /\ jobs_file'.state = "complete"
              /\ SnapshotOf(jobs_file'.rows, jobs')]_vars

\* the process stopped between the write of the temporary file and the rename
\* and has started again: the temporary file is a whole snapshot that was
\* never renamed, the canonical file the older snapshot of two jobs
C10_Witness ==
    /\ restarts > 0
    /\ temp_file.state = "complete"
    /\ jobs_file.state = "complete"
    /\ temp_file.rows # jobs_file.rows
    /\ Len(jobs_file.rows) = 2
    /\ jobs_file.rows[1].created_at > jobs_file.rows[2].created_at

(***************************************************************************)
(* One page from the oracle's answer to the final sections, step by step:  *)
(* _normalize_sections, then _apply_layout_to_page up to its header clip,  *)
(* up to its first _resolve_overlaps, and to its end.                      *)
(***************************************************************************)
MaxRaw == 3

MaxPageElements == 2

\* pdfplumber reports what the content stream draws, also the part of it
\* that lies off the page
PageWidths == {PageWidth - 1, PageWidth}

HeaderSeparators == {NoSep, 1}

RawProposals ==
    { [kind |-> "dict", name |-> "Header", content_type |-> "metadata", region |-> <<0, 0, 5, 2>>],
      [kind |-> "dict", name |-> "Cash", content_type |-> "table", region |-> <<0, 1, 3, 3>>],
      [kind |-> "dict", name |-> "Chart", content_type |-> "chart", region |-> <<3, 2, 6, 4>>],
      [kind |-> "dict", name |-> " Notes ", content_type |-> "footnote", region |-> <<5, 3, 2, 0>>],
      [kind |-> "dict", name |-> "Footer", content_type |-> "metadata", region |-> <<0, 2, 5, 3>>],
      [kind |-> "dict", name |-> " ", content_type |-> "table", region |-> <<0, 0, 1, 1>>],
      [kind |-> "dict", name |-> "Bad", content_type |-> "table", region |-> <<0, 0, 1>>],
      [kind |-> "dict", name |-> "Odd", content_type |-> "table", region |-> <<0, 0, NonNumeric, 1>>],
      [kind |-> "string", name |-> "", content_type |-> "", region |-> << >>] }

RawProposalLists ==
    {rs \in UNION {[1..n -> RawProposals] : n \in 0..MaxRaw} :
        \A i \in DOMAIN rs, j \in DOMAIN rs : rs[i] = rs[j] => i = j}

PageMapsAnySize ==
    {[width |-> w, height |-> PageHeight, header_separator_y |-> sep,
      elements |-> [k \in DOMAIN bs |-> [id |-> k, bbox |-> bs[k]]]] :
        w \in PageWidths, sep \in HeaderSeparators,
        bs \in {es \in ElementLists : Len(es) <= MaxPageElements}}

InitPage ==
    /\ page_map \in PageMapsAnySize
    /\ raw_sections \in RawProposalLists
    /\ layout = << >>
    /\ sections = << >>
    /\ lpc = "raw"
    /\ InitStore
    /\ NoMatchCall
    /\ NoExtraction

\* _call_gpt_layout_single: the parsed answer goes through _normalize_sections
Normalize ==
    /\ lpc = "raw"
    /\ IF NormalizeRaises(raw_sections)
       THEN /\ lpc' = "raised"
            /\ UNCHANGED layout
       ELSE /\ layout' = NormalizeSections(raw_sections, page_map.width, page_map.height)
            /\ lpc' = "normalized"
    /\ UNCHANGED <<page_map, raw_sections, sections>>
    /\ UNCHANGED storeVars
    /\ UNCHANGED extractVars
    /\ UNCHANGED matchVars

\* _apply_layout_to_page, the header clip
ClipStep ==
    /\ lpc = "normalized"
    /\ sections' = ClippedLayout(page_map, layout)
    /\ lpc' = "clipped"
    /\ UNCHANGED <<page_map, raw_sections, layout>>
    /\ UNCHANGED storeVars
    /\ UNCHANGED extractVars
    /\ UNCHANGED matchVars

\* _apply_layout_to_page, the first _resolve_overlaps
ResolveStep ==
    /\ lpc = "clipped"
    /\ sections' = ResolvedLayout(page_map, layout)
    /\ lpc' = "resolved"
    /\ UNCHANGED <<page_map, raw_sections, layout>>
    /\ UNCHANGED storeVars
    /\ UNCHANGED extractVars
    /\ UNCHANGED matchVars

\* _apply_layout_to_page, from the assignment of the elements to its return
AssignStep ==
    /\ lpc = "resolved"
    /\ sections' = ApplyLayoutToPage(page_map, layout)
    /\ lpc' = "applied"
    /\ UNCHANGED <<page_map, raw_sections, layout>>
    /\ UNCHANGED storeVars
    /\ UNCHANGED extractVars
    /\ UNCHANGED matchVars

NextPage == Normalize \/ ClipStep \/ ResolveStep \/ AssignStep

SpecPage == InitPage /\ [][NextPage]_vars

(***************************************************************************)
(* Properties of the section matcher                                       *)
(***************************************************************************)
\* C11: a name that is in both lists is paired with its identical test name,
\* and no other reference name is paired with that test name
C11_ExactPrecedence ==
    match.pc = "matched" =>
        \A rn \in Range(ref_names) \cap Range(test_names) :
            /\ \E p \in DOMAIN match.matched : match.matched[p] = <<rn, rn>>
            /\ \A p \in DOMAIN match.matched :
                   match.matched[p][2] = rn => match.matched[p][1] = rn

PairsWithRef(rn) == {p \in DOMAIN match.matched : match.matched[p][1] = rn}

PairsWithTest(tn) == {p \in DOMAIN match.matched : match.matched[p][2] = tn}

\* C12: every reference name is the first component of exactly one pair or is
\* in ref_only, every test name is the second component of exactly one pair
\* or is in test_only, and no test name is the second component of two pairs
C12_EveryEntryAccounted ==
    match.pc = "matched" =>
        /\ \A rn \in Range(ref_names) :
               \/ Cardinality(PairsWithRef(rn)) = 1 /\ rn \notin Range(match.ref_only)
               \/ Cardinality(PairsWithRef(rn)) = 0 /\ rn \in Range(match.ref_only)
        /\ \A tn \in Range(test_names) :
               \/ Cardinality(PairsWithTest(tn)) = 1 /\ tn \notin Range(match.test_only)
               \/ Cardinality(PairsWithTest(tn)) = 0 /\ tn \in Range(match.test_only)
        /\ \A p \in DOMAIN match.matched :
               /\ match.matched[p][1] \in Range(ref_names)
               /\ match.matched[p][2] \in Range(test_names)
        /\ Range(match.ref_only) \subseteq Range(ref_names)
        /\ Range(match.test_only) \subseteq Range(test_names)

\* a call that made an exact pair and a fuzzy pair and left a reference name
\* unmatched
C12_Witness ==
    /\ match.pc = "matched"
    /\ \E p \in DOMAIN match.matched : match.matched[p][1] = match.matched[p][2]
    /\ \E p \in DOMAIN match.matched : match.matched[p][1] # match.matched[p][2]
    /\ match.ref_only # << >>

(***************************************************************************)
(* Properties of the page pipeline                                         *)
(***************************************************************************)
WithinPage(region, pm) ==
    /\ 0 <= region[1] /\ region[1] <= region[3] /\ region[3] <= pm.width
    /\ 0 <= region[2] /\ region[2] <= region[4] /\ region[4] <= pm.height

\* C13: every region of the final region list of a page lies within
\* [0, width] x [0, height] of the page
C13_RegionsWithinPage ==
    lpc = "applied" => \A k \in DOMAIN sections : WithinPage(sections[k].region, page_map)

\* the sequences of distinct indexes of a list of n regions
IndexSeqs(n) ==
    {idx \in UNION {[1..m -> 1..n] : m \in 1..n} :
        \A i \in DOMAIN idx, j \in DOMAIN idx : idx[i] = idx[j] => i = j}

RECURSIVE JoinNames(_, _)
JoinNames(secs, idx) ==
    IF Len(idx) = 1 THEN secs[idx[1]].name
    ELSE JoinNames(secs, SubSeq(idx, 1, Len(idx) - 1)) \o " + " \o secs[idx[Len(idx)]].name

\* the ways to make region o out of regions of secs: the name joined with
\* " + ", the bbox their union
MadeOf(o, secs) ==
    {idx \in IndexSeqs(Len(secs)) :
        /\ o.name = JoinNames(secs, idx)
        /\ o.region = BboxUnion([k \in DOMAIN idx |-> secs[idx[k]].region])}

Overlapping(secs) ==
    \E i \in DOMAIN secs, j \in DOMAIN secs :
        i < j /\ RectIntersectionArea(secs[i].region, secs[j].region) > 0

\* what C19 says of one call _resolve_overlaps(before) = after
ResolvedFrom(before, after) ==
    /\ ~Overlapping(after)
    /\ Overlapping(before) => Len(after) < Len(before)
    /\ ~Overlapping(before) => after = before
    /\ \A k \in DOMAIN after :
           /\ MadeOf(after[k], before) # {}
           /\ \A idx \in MadeOf(after[k], before) :
                  Len(idx) = 2 =>
                      /\ idx[1] < idx[2]
                      /\ RectIntersectionArea(before[idx[1]].region, before[idx[2]].region) > 0
    /\ \A i \in DOMAIN before :
           Cardinality({k \in DOMAIN after :
                           \E idx \in MadeOf(after[k], before) : \E n \in DOMAIN idx : idx[n] = i}) = 1

\* C19: _resolve_overlaps merges two regions whenever they intersect with
\* positive area, into the union bbox named '<first> + <second>' in list
\* order, leaves regions that only touch apart, and leaves no two regions
\* that intersect with positive area
C19_ResolveOverlaps ==
    [][(lpc = "clipped" /\ lpc' = "resolved") => ResolvedFrom(sections, sections')]_vars

Touching(a, b) ==
    /\ RectIntersectionArea(a, b) = 0
    /\ Max2(a[1], b[1]) <= Min2(a[3], b[3])
    /\ Max2(a[2], b[2]) <= Min2(a[4], b[4])

\* the resolver merged two proposals and left the merged region beside one
\* it touches along an edge
C19_Witness ==
    /\ lpc = "resolved"
    /\ Len(sections) = 2
    /\ Len(layout) = 3
    /\ Touching(sections[1].region, sections[2].region)

\* C20: with a header separator, the clip step leaves every metadata region
\* whose top is above the separator with its bottom at most the separator,
\* and changes no other region
C20_HeaderClip ==
    [][(lpc = "normalized" /\ lpc' = "clipped" /\ page_map.header_separator_y # NoSep) =>
          /\ Len(sections') = Len(layout)
          /\ \A k \in DOMAIN layout :
                 IF /\ layout[k].content_type = "metadata"
                    /\ layout[k].region[2] < page_map.header_separator_y
                 THEN /\ sections'[k].region[4] <= page_map.header_separator_y
                      /\ sections'[k].region[4] <= layout[k].region[4]
                      /\ \A c \in 1..3 : sections'[k].region[c] = layout[k].region[c]
                      /\ sections'[k].name = layout[k].name
                 ELSE sections'[k] = layout[k]]_vars

\* a header was cut at the separator, and a metadata region below the
\* separator and a region of another type above it were left alone
C20_Witness ==
    /\ lpc = "clipped"
    /\ page_map.header_separator_y # NoSep
    /\ \E k \in DOMAIN layout :
          /\ layout[k].region[4] > page_map.header_separator_y
          /\ sections[k].region[4] = page_map.header_separator_y
    /\ \E k \in DOMAIN layout :
          /\ layout[k].content_type = "metadata"
          /\ layout[k].region[2] >= page_map.header_separator_y
    /\ \E k \in DOMAIN layout :
          /\ layout[k].content_type # "metadata"
          /\ layout[k].region[2] < page_map.header_separator_y
          /\ layout[k].region[4] > page_map.header_separator_y

(***************************************************************************)
(* Properties of the stages: progress, messages, durability                *)
(***************************************************************************)
\* C14: in every reachable state of a job and for each of its three stages,
\* progress equals total if and only if the stage's status is done
C14_ProgressEqualsTotalIffDone ==
    \A k \in DOMAIN jobs, stage \in Stages :
        (Progress(jobs[k], stage) = Total(jobs[k], stage)) <=> (Status(jobs[k], stage) = "done")

\* C15: for each of the three stages, a stage that reconciliation turns from
\* running to failed carries the sentinel message afterwards, in memory and
\* in the snapshot reconciliation writes
C15_SentinelOnEveryStage ==
    [][ProcessStarted =>
          \A k \in DOMAIN jobs_file.rows, stage \in Stages :
              LET row == jobs_file.rows[k]
              IN  Status(row, stage) = "running" =>
                      /\ RUN_INTERRUPTED_ERROR \in ErrorsOf(GetJob(jobs', row.job_id), stage)
                      /\ RUN_INTERRUPTED_ERROR \in ErrorsOf(GetJob(jobs_file'.rows, row.job_id), stage)]_vars

\* the run r runs from its first line to its gather in this step
RunStarts(r) ==
    /\ r \in DOMAIN runs
    /\ r \in DOMAIN runs'
    /\ runs[r].pc = "scheduled"
    /\ runs'[r].pc = "gather"

\* the canonical file holds a complete snapshot whose record of the job shows
\* the stage as the store has it
Durable(file, js, job_id, stage) ==
    /\ file.state = "complete"
    /\ job_id \in JobIds(file.rows)
    /\ Status(GetJob(file.rows, job_id), stage) = Status(GetJob(js, job_id), stage)
    /\ Progress(GetJob(file.rows, job_id), stage) = Progress(GetJob(js, job_id), stage)
    /\ Total(GetJob(file.rows, job_id), stage) = Total(GetJob(js, job_id), stage)

\* C16: for each stage, the run writes its status transitions to the
\* snapshot: running with progress 0 and total = unit count before the first
\* unit executes, and the terminal status once the run has ended
C16_TransitionsPersisted ==
    [][\A r \in DOMAIN runs :
          /\ RunStarts(r) =>
                 /\ Status(GetJob(jobs', runs[r].job_id), runs[r].stage) = "running"
                 /\ Progress(GetJob(jobs', runs[r].job_id), runs[r].stage) = 0
                 /\ Total(GetJob(jobs', runs[r].job_id), runs[r].stage) = Len(runs'[r].units)
                 /\ Durable(jobs_file', jobs', runs[r].job_id, runs[r].stage)
          /\ RunEndsDone(r) =>
                 /\ Status(GetJob(jobs', runs[r].job_id), runs[r].stage) \in {"done", "failed"}
                 /\ Durable(jobs_file', jobs', runs[r].job_id, runs[r].stage)]_vars

\* the except branch of the run r is executed in this step
RunFails(r) ==
    /\ r \in DOMAIN runs
    /\ r \in DOMAIN runs'
    /\ runs[r].pc = "except"
    /\ runs'[r].pc = "failed"

\* C17: for each stage, when an exception escapes the fan-out of a run the
\* stage's status becomes failed and the exception's message is recorded on
\* the job as that stage's error
C17_EscapedExceptionRecorded ==
    [][\A r \in DOMAIN runs :
          RunFails(r) =>
              LET job == GetJob(jobs', runs[r].job_id)
              IN  /\ Status(job, runs[r].stage) = "failed"
                  /\ OSErrorMessage \in ErrorsOf(job, runs[r].stage)]_vars

\* C18: after a run has ended, the result store holds no result for a work
\* unit whose unit operation failed in that run, also when an earlier run of
\* the same stage had stored one
C18_FailedUnitHasNoResult ==
    [][\A r \in DOMAIN runs :
          RunEndsDone(r) =>
              \A u \in DOMAIN runs[r].units :
                  runs[r].units[u] = "raised" => ResultKey(runs[r], u) \notin results']_vars

(***************************************************************************)
(* Properties of the page pipeline, continued                              *)
(***************************************************************************)
\* C21: when the proposal list of a page is empty and the page has at least
\* one element, the final list is exactly one region, named "Page", whose
\* element list holds every element id of the page
C21_SyntheticPage ==
    (lpc = "applied" /\ layout = << >> /\ page_map.elements # << >>) =>
        /\ Len(sections) = 1
        /\ sections[1].name = "Page"
        /\ sections[1].element_ids = [k \in DOMAIN page_map.elements |-> page_map.elements[k].id]

\* a page of two elements whose proposals were all dropped by normalisation
C21_Witness ==
    /\ lpc = "applied"
    /\ layout = << >>
    /\ raw_sections # << >>
    /\ Len(page_map.elements) = 2
    /\ Len(sections) = 1
    /\ Len(sections[1].element_ids) = 2

\* the proposals C22 lets through: a JSON object with a name and a region of
\* four numbers
WellFormed(s) ==
    /\ s.kind = "dict"
    /\ Strip(s.name) # ""
    /\ Len(s.region) = 4
    /\ \A c \in DOMAIN s.region : s.region[c] # NonNumeric

\* what C22 says of the list norm returned for the payload raw
NormalizedFrom(raw, norm, w, h) ==
    /\ Len(norm) = Cardinality({k \in DOMAIN raw : WellFormed(raw[k])})
    /\ \A k \in DOMAIN raw :
           WellFormed(raw[k]) =>
               \E n \in DOMAIN norm :
                   /\ norm[n].name = Strip(raw[k].name)
                   /\ norm[n].content_type =
                          IF raw[k].content_type \in ALLOWED_CONTENT_TYPES
                          THEN raw[k].content_type ELSE "mixed"
    /\ \A n \in DOMAIN norm :
           /\ Len(norm[n].name) <= 200
           /\ 0 <= norm[n].region[1] /\ norm[n].region[1] <= norm[n].region[3]
           /\ norm[n].region[3] <= w
           /\ 0 <= norm[n].region[2] /\ norm[n].region[2] <= norm[n].region[4]
           /\ norm[n].region[4] <= h

\* C22: for any oracle payload _normalize_sections does not raise; it drops
\* the entries with an empty name or a malformed region (a non-numeric value
\* in the list included), turns an unknown content type into "mixed", and
\* keeps names of at most 200 characters and regions clamped to the page
\* with x0 <= x1 and y0 <= y1
C22_NormalizeTotal ==
    [][(lpc = "raw" /\ lpc' # "raw") =>
          /\ lpc' = "normalized"
          /\ NormalizedFrom(raw_sections, layout', page_map.width, page_map.height)]_vars

\* the region list the elements of the page are assigned to
AssignedTo == ResolvedLayout(page_map, layout)

\* the index of the section of the assignment's result that holds the element
ChosenFor(el) ==
    CHOOSE si \in DOMAIN sections : \E n \in DOMAIN sections[si].element_ids :
        sections[si].element_ids[n] = el.id

\* twice the point (cx2, cy2) lies in the interior of the region
StrictlyInside(region, cx2, cy2) ==
    /\ 2 * region[1] < cx2 /\ cx2 < 2 * region[3]
    /\ 2 * region[2] < cy2 /\ cy2 < 2 * region[4]

\* four times the squared axis-wise distance from the centroid to the region
AxisDistance(el, region) ==
    LET c == Centroid(el.bbox)
        dx == IF c[1] < 2 * region[1] THEN 2 * region[1] - c[1]
              ELSE IF c[1] > 2 * region[3] THEN c[1] - 2 * region[3] ELSE 0
        dy == IF c[2] < 2 * region[2] THEN 2 * region[2] - c[2]
              ELSE IF c[2] > 2 * region[4] THEN c[2] - 2 * region[4] ELSE 0
    IN  dx * dx + dy * dy

\* the lowest-indexed region at minimal distance
Nearest(el, secs) ==
    CHOOSE si \in DOMAIN secs :
        /\ \A sj \in DOMAIN secs : AxisDistance(el, secs[si].region) <= AxisDistance(el, secs[sj].region)
        /\ \A sj \in 1..(si - 1) : AxisDistance(el, secs[si].region) < AxisDistance(el, secs[sj].region)

\* C23: an element whose centroid lies strictly inside no region, on the
\* boundary of some or not, is assigned by the nearest-region rule: to the
\* lowest-indexed region at minimal distance
C23_BoundaryIsNearest ==
    (lpc = "assigned" /\ AssignedTo # << >>) =>
        \A k \in DOMAIN page_map.elements :
            LET el == page_map.elements[k]
                c == Centroid(el.bbox)
            IN  (\A si \in DOMAIN AssignedTo : ~StrictlyInside(AssignedTo[si].region, c[1], c[2]))
                    => ChosenFor(el) = Nearest(el, AssignedTo)

\* the regions whose bbox, edges included, holds the centroid of the element
Containing(el, secs) ==
    {si \in DOMAIN secs : ContainsPoint(secs[si].region, Centroid(el.bbox)[1], Centroid(el.bbox)[2])}

\* the lowest-indexed region of S with the largest intersection area with the
\* element's bbox
LargestIntersection(el, secs, S) ==
    CHOOSE si \in S :
        /\ \A sj \in S : RectIntersectionArea(secs[sj].region, el.bbox)
                            <= RectIntersectionArea(secs[si].region, el.bbox)
        /\ \A sj \in S : sj < si => RectIntersectionArea(secs[sj].region, el.bbox)
                                       < RectIntersectionArea(secs[si].region, el.bbox)

\* C24: for every element and non-empty region list, the assignment chooses
\* among the regions containing the centroid the one with the largest
\* intersection area with the element's bbox, ties to the lowest index, and
\* when no region contains the centroid the region of least dx^2 + dy^2,
\* ties to the lowest index
C24_ChoiceRule ==
    (lpc = "assigned" /\ AssignedTo # << >>) =>
        \A k \in DOMAIN page_map.elements :
            LET el == page_map.elements[k]
            IN  ChosenFor(el) =
                    IF Containing(el, AssignedTo) # {}
                    THEN LargestIntersection(el, AssignedTo, Containing(el, AssignedTo))
                    ELSE Nearest(el, AssignedTo)

\* one element lies in two regions and went to the later one, which shares
\* more area with it; another lies in no region and went to a region that is
\* not the first
C24_Witness ==
    /\ lpc = "assigned"
    /\ AssignedTo # << >>
    /\ \E k \in DOMAIN page_map.elements :
          LET el == page_map.elements[k]
          IN  /\ Cardinality(Containing(el, AssignedTo)) >= 2
              /\ \E si \in Containing(el, AssignedTo) : si < ChosenFor(el)
    /\ \E k \in DOMAIN page_map.elements :
          LET el == page_map.elements[k]
          IN  /\ Containing(el, AssignedTo) = {}
              /\ ChosenFor(el) > 1

\* the bounding boxes the final regions of the page are output with
OutputBboxes == [k \in DOMAIN sections |-> ComputeBbox(page_map, sections[k])]

\* C25: the final region list of a page is ordered by (top, then left) of
\* the bboxes the regions are output with, the unions of their assigned
\* elements, also when an element-less proposed region was merged into a
\* region during the second overlap resolution
C25_OutputInReadingOrder ==
    lpc = "applied" => InReadingOrder(OutputBboxes)

(***************************************************************************)
(* The page map extractor (services/page_map.py)                           *)
(*                                                                         *)
(* A primitive is [type, bbox, content]; content is the sequence of the    *)
(* texts it carries, << >> for None, and the joins " | ".join(texts[:5])   *)
(* and " ".join(texts[:10]) are kept as the sequence of the joined texts.  *)
(* Coordinates are whole points, so round(v, 1) changes nothing.           *)
(***************************************************************************)
MERGE_TOLERANCE == 1

PROXIMITY_GAP == 5

\* _contains(outer, inner)
Contains(outer, inner) ==
    /\ inner[1] >= outer[1] - MERGE_TOLERANCE
    /\ inner[2] >= outer[2] - MERGE_TOLERANCE
    /\ inner[3] <= outer[3] + MERGE_TOLERANCE
    /\ inner[4] <= outer[4] + MERGE_TOLERANCE

\* _touches(a, b)
Touches(a, b) ==
    /\ a[1] <= b[3] + MERGE_TOLERANCE /\ b[1] <= a[3] + MERGE_TOLERANCE
    /\ a[2] <= b[4] + MERGE_TOLERANCE /\ b[2] <= a[4] + MERGE_TOLERANCE

BboxArea(b) == Max2(0, b[3] - b[1]) * Max2(0, b[4] - b[2])

\* _group_bbox
GroupBbox(group) == BboxUnion([k \in DOMAIN group |-> group[k].bbox])

\* the first n entries of a list
Prefix(s, n) == SubSeq(s, 1, Min2(n, Len(s)))

RECURSIVE Flatten(_)
\* the texts of a list of contents, one after the other
Flatten(contents) ==
    IF contents = << >> THEN << >> ELSE Head(contents) \o Flatten(Tail(contents))

RECURSIVE InsertByArea(_, _)
\* s, largest area first, with x put behind every rect that is not smaller
InsertByArea(s, x) ==
    IF s = << >> THEN <<x>>
    ELSE IF BboxArea(s[Len(s)].bbox) >= BboxArea(x.bbox)
         THEN Append(s, x)
         ELSE Append(InsertByArea(SubSeq(s, 1, Len(s) - 1), x), s[Len(s)])

RECURSIVE LargestFirst(_)
\* rects.sort(key=area, reverse=True): stable
LargestFirst(s) ==
    IF s = << >> THEN << >>
    ELSE InsertByArea(LargestFirst(SubSeq(s, 1, Len(s) - 1)), s[Len(s)])

\* the groups that are not flagged as merged, in their order
Unflagged(groups, flags) ==
    LET keep == SelectSeq([k \in DOMAIN groups |-> k], LAMBDA k : k \notin flags)
    IN  [n \in DOMAIN keep |-> groups[keep[n]]]

RECURSIVE AbsorbFree(_, _, _, _, _)
\* the loop over the free primitives: each goes to the first group whose
\* union bbox contains it; the result is <<groups, still_free, changed>>
AbsorbFree(free, k, groups, still_free, changed) ==
    IF k > Len(free) THEN <<groups, still_free, changed>>
    ELSE LET holders == {g \in DOMAIN groups : Contains(GroupBbox(groups[g]), free[k].bbox)}
         IN  IF holders = {}
             THEN AbsorbFree(free, k + 1, groups, Append(still_free, free[k]), changed)
             ELSE AbsorbFree(free, k + 1,
                             [groups EXCEPT ![SetMin(holders)] = Append(@, free[k])],
                             still_free, TRUE)

RECURSIVE ContainJ(_, _, _, _, _, _)
\* the inner loop of the containment pass; union_i was taken before it
ContainJ(groups, flags, i, j, union_i, changed) ==
    IF j > Len(groups) THEN <<groups, flags, changed>>
    ELSE IF j \in flags THEN ContainJ(groups, flags, i, j + 1, union_i, changed)
    ELSE IF Contains(union_i, GroupBbox(groups[j]))
         THEN ContainJ([groups EXCEPT ![i] = @ \o groups[j]], flags \cup {j}, i, j + 1,
                       union_i, TRUE)
    ELSE IF Contains(GroupBbox(groups[j]), union_i)
         THEN <<[groups EXCEPT ![j] = @ \o groups[i]], flags \cup {i}, TRUE>>
    ELSE ContainJ(groups, flags, i, j + 1, union_i, changed)

RECURSIVE ContainI(_, _, _, _)
ContainI(groups, flags, i, changed) ==
    IF i > Len(groups) THEN <<Unflagged(groups, flags), changed>>
    ELSE IF i \in flags THEN ContainI(groups, flags, i + 1, changed)
    ELSE LET r == ContainJ(groups, flags, i, i + 1, GroupBbox(groups[i]), changed)
         IN  ContainI(r[1], r[2], i + 1, r[3])

RECURSIVE TouchJ(_, _, _, _, _, _)
\* the inner loop of the touch pass; union_i was taken before it
TouchJ(groups, flags, i, j, union_i, changed) ==
    IF j > Len(groups) THEN <<groups, flags, changed>>
    ELSE IF j \in flags THEN TouchJ(groups, flags, i, j + 1, union_i, changed)
    ELSE IF Touches(union_i, GroupBbox(groups[j]))
         THEN TouchJ([groups EXCEPT ![i] = @ \o groups[j]], flags \cup {j}, i, j + 1,
                     union_i, TRUE)
    ELSE TouchJ(groups, flags, i, j + 1, union_i, changed)

RECURSIVE TouchI(_, _, _, _)
TouchI(groups, flags, i, changed) ==
    IF i > Len(groups) THEN <<Unflagged(groups, flags), changed>>
    ELSE IF i \in flags THEN TouchI(groups, flags, i + 1, changed)
    ELSE LET r == TouchJ(groups, flags, i, i + 1, GroupBbox(groups[i]), changed)
         IN  TouchI(r[1], r[2], i + 1, r[3])

\* a single pass of the loop, whatever it changed
MergeOnePass(groups, free) ==
    LET a == AbsorbFree(free, 1, groups, << >>, FALSE)
        c == ContainI(a[1], {}, 1, a[3])
        t == TouchI(c[1], {}, 1, c[2])
    IN  <<t[1], a[2]>>

\* the body of the `while changed` loop: <<rect_groups, free, changed>>
MergePass(groups, free) ==
    LET a == AbsorbFree(free, 1, groups, << >>, FALSE)
        c == ContainI(a[1], {}, 1, a[3])
        t == TouchI(c[1], {}, 1, c[2])
    IN  <<t[1], a[2], t[2]>>

RECURSIVE MergeUntilStable(_, _)
\* the `while changed` loop; the result is <<rect_groups, free>>
MergeUntilStable(groups, free) ==
    LET p == MergePass(groups, free)
    IN  IF p[3] THEN MergeUntilStable(p[1], p[2]) ELSE <<p[1], p[2]>>

\* the element built for one group
MergedElement(group) ==
    [type |-> "merged", bbox |-> GroupBbox(group),
     content |-> Prefix(Flatten([k \in DOMAIN group |-> group[k].content]), 5),
     child_count |-> Len(group)]

\* _recursive_rect_merge(elements, page_width, page_height)
\* the elements that pass the page-fraction filter
Filtered(elements, page_width, page_height) ==
    SelectSeq(elements, LAMBDA e : ~(e.type = "rect"
                                      /\ 2 * BboxArea(e.bbox) > page_width * page_height))

\* rect_groups as the loop is entered: one group for each rect, largest first
InitialGroups(filtered) ==
    LET sorted == LargestFirst(SelectSeq(filtered, LAMBDA e : e.type = "rect"))
    IN  [k \in DOMAIN sorted |-> <<sorted[k]>>]

RecursiveRectMerge(elements, page_width, page_height) ==
    LET filtered == Filtered(elements, page_width, page_height)
        rects == SelectSeq(filtered, LAMBDA e : e.type = "rect")
        others == SelectSeq(filtered, LAMBDA e : e.type # "rect")
        r == MergeUntilStable(InitialGroups(filtered), others)
    IN  IF rects = << >> THEN filtered
        ELSE [k \in DOMAIN r[1] |-> MergedElement(r[1][k])] \o r[2]

\* the test of the inner loop of _merge_nearby
Nearby(a, b) ==
    /\ a[1] <= b[3] + PROXIMITY_GAP /\ b[1] <= a[3] + PROXIMITY_GAP
    /\ a[2] <= b[4] + PROXIMITY_GAP /\ b[2] <= a[4] + PROXIMITY_GAP

\* the cluster an element starts as
ClusterOf(e) == [bbox |-> e.bbox, types |-> {e.type}, texts |-> <<e.content>>, count |-> 1]

RECURSIVE NearJ(_, _, _, _, _)
\* the inner loop of one pass: cluster i takes in every later cluster within
\* the gap of its bbox as grown so far
NearJ(clusters, flags, i, j, changed) ==
    IF j > Len(clusters) THEN <<clusters, flags, changed>>
    ELSE IF j \in flags THEN NearJ(clusters, flags, i, j + 1, changed)
    ELSE IF Nearby(clusters[i].bbox, clusters[j].bbox)
         THEN NearJ([clusters EXCEPT ![i] =
                        [bbox |-> BboxUnion(<<clusters[i].bbox, clusters[j].bbox>>),
                         types |-> clusters[i].types \cup clusters[j].types,
                         texts |-> clusters[i].texts \o clusters[j].texts,
                         count |-> clusters[i].count + clusters[j].count]],
                    flags \cup {j}, i, j + 1, TRUE)
    ELSE NearJ(clusters, flags, i, j + 1, changed)

RECURSIVE NearIKeepingAll(_, _, _, _)
\* a pass that merges but leaves the clusters it merged in the list
NearIKeepingAll(clusters, flags, i, changed) ==
    IF i > Len(clusters) THEN <<clusters, changed>>
    ELSE LET r == NearJ(clusters, {}, i, i + 1, changed)
         IN  NearIKeepingAll(r[1], {}, i + 1, r[3])

RECURSIVE NearI(_, _, _, _)
\* one pass; new_clusters are the clusters that were not merged into another
NearI(clusters, flags, i, changed) ==
    IF i > Len(clusters) THEN <<Unflagged(clusters, flags), changed>>
    ELSE IF i \in flags THEN NearI(clusters, flags, i + 1, changed)
    ELSE LET r == NearJ(clusters, flags, i, i + 1, changed)
         IN  NearI(r[1], r[2], i + 1, r[3])

\* a single pass over the clusters, whatever it changed
ClusterOnePass(clusters) == NearI(clusters, {}, 1, FALSE)[1]

RECURSIVE ClusterUntilStable(_)
\* the `while changed` loop of _merge_nearby
ClusterUntilStable(clusters) ==
    LET r == NearI(clusters, {}, 1, FALSE)
    IN  IF r[2] THEN ClusterUntilStable(r[1]) ELSE r[1]

\* the classification of a final cluster
BlockType(types) ==
    LET has_text == "text" \in types \/ "merged" \in types
        only_text == types \subseteq {"text", "merged"}
    IN  IF only_text /\ has_text THEN "text_block"
        ELSE IF ~has_text THEN "drawing_block"
        ELSE "mixed_block"

\* the element built for one final cluster
ClusterElement(c) ==
    [type |-> BlockType(c.types), bbox |-> c.bbox,
     content |-> Flatten(Prefix(SelectSeq(c.texts, LAMBDA t : t # << >>), 10))]

\* _merge_nearby(elements)
MergeNearby(elements) ==
    IF Len(elements) <= 1 THEN elements
    ELSE LET clusters == ClusterUntilStable([k \in DOMAIN elements |-> ClusterOf(elements[k])])
         IN  [k \in DOMAIN clusters |-> ClusterElement(clusters[k])]

RECURSIVE InsertByBbox(_, _)
\* s with element x put after the last element that is not below it (stable)
InsertByBbox(s, x) ==
    IF s = << >> THEN <<x>>
    ELSE IF ReadingKeyLeq(s[Len(s)].bbox, x.bbox)
         THEN Append(s, x)
         ELSE Append(InsertByBbox(SubSeq(s, 1, Len(s) - 1), x), s[Len(s)])

RECURSIVE SortByBbox(_)
\* elements.sort(key=lambda e: (e["bbox"][1], e["bbox"][0]))
SortByBbox(s) ==
    IF s = << >> THEN << >>
    ELSE InsertByBbox(SortByBbox(SubSeq(s, 1, Len(s) - 1)), s[Len(s)])

\* the loop that gives the i-th element of the merged list the identity
\* E<i>; the identity is kept as the number i, and child_count, which only
\* a lone merged block still has here, is left out
WithIds(elements) ==
    [i \in DOMAIN elements |->
        [id |-> i, type |-> elements[i].type, bbox |-> elements[i].bbox,
         content |-> elements[i].content]]

\* the elements of extract_page_map's result, from the merged list
IdentifiedElements(elements) == SortByBbox(WithIds(elements))

\* the candidates of _detect_header_separator, as twice their midpoint y:
\* height <= 3.0, width >= page_width * 0.5, mid_y <= page_height * 0.15
SeparatorCandidates(raw_elements, page_width, page_height) ==
    {raw_elements[k].bbox[2] + raw_elements[k].bbox[4] :
        k \in {n \in DOMAIN raw_elements :
                  LET el == raw_elements[n]
                  IN  /\ el.type \in {"line", "rect"}
                      /\ ~(el.bbox[4] - el.bbox[2] > 3)
                      /\ ~(2 * (el.bbox[3] - el.bbox[1]) < page_width)
                      /\ ~(20 * (el.bbox[2] + el.bbox[4]) > 2 * 3 * page_height)}}

\* a separator search that reports the topmost candidate
DetectTopmostSeparator(raw_elements, page_width, page_height) ==
    LET candidates == SeparatorCandidates(raw_elements, page_width, page_height)
    IN  IF candidates = {} THEN NoSep ELSE SetMin(candidates)

\* _detect_header_separator(raw_elements, page_width, page_height)
DetectHeaderSeparator(raw_elements, page_width, page_height) ==
    LET candidates == SeparatorCandidates(raw_elements, page_width, page_height)
    IN  IF candidates = {} THEN NoSep ELSE SetMax(candidates)

(***************************************************************************)
(* One call of extract_page_map on a page of 30 x 30 points, step by step: *)
(* _recursive_rect_merge, _merge_nearby, then identities and the sort.     *)
(* _extract_raw lists the words first, then rects, lines, curves, images.  *)
(***************************************************************************)
MaxPrimitives == 4

RawWidth == 30

RawHeight == 30

Primitives ==
    { [type |-> "text", bbox |-> <<0, 0, 5, 5>>, content |-> <<"Net">>],
      [type |-> "text", bbox |-> <<9, 0, 15, 5>>, content |-> <<"Assets">>],
      [type |-> "text", bbox |-> <<0, 26, 6, 28>>, content |-> <<"Page">>],
      [type |-> "rect", bbox |-> <<0, 0, 10, 10>>, content |-> << >>],
      [type |-> "rect", bbox |-> <<8, 8, 20, 20>>, content |-> << >>],
      [type |-> "rect", bbox |-> <<11, 0, 15, 10>>, content |-> << >>],
      [type |-> "rect", bbox |-> <<20, 24, 30, 30>>, content |-> << >>],
      [type |-> "rect", bbox |-> <<0, 0, 30, 20>>, content |-> << >>],
      [type |-> "rect", bbox |-> <<5, 1, 25, 4>>, content |-> << >>],
      [type |-> "line", bbox |-> <<0, 22, 30, 22>>, content |-> << >>],
      [type |-> "line", bbox |-> <<0, 3, 30, 3>>, content |-> << >>],
      [type |-> "line", bbox |-> <<0, 4, 20, 5>>, content |-> << >>],
      [type |-> "line", bbox |-> <<10, 4, 20, 4>>, content |-> << >>],
      [type |-> "image", bbox |-> <<24, 0, 30, 6>>, content |-> << >>] }

\* the place of a type in the list of _extract_raw
TypeRank(type) ==
    CASE type = "text" -> 1 [] type = "rect" -> 2 [] type = "line" -> 3
      [] type = "curve" -> 4 [] type = "image" -> 5

RawPages ==
    {[width |-> RawWidth, height |-> RawHeight, elements |-> es] :
        es \in {ps \in UNION {[1..n -> Primitives] : n \in 0..MaxPrimitives} :
                   /\ \A i \in DOMAIN ps, j \in DOMAIN ps : ps[i] = ps[j] => i = j
                   /\ \A i \in DOMAIN ps, j \in DOMAIN ps :
                          i < j => TypeRank(ps[i].type) <= TypeRank(ps[j].type)}}

InitExtract ==
    /\ raw_page \in RawPages
    /\ extracted = << >>
    /\ xpc = "raw"
    /\ separator = NoSep
    /\ loop = NoLoop
    /\ InitStore
    /\ page_map = [width |-> 0, height |-> 0, header_separator_y |-> NoSep, elements |-> << >>]
    /\ layout = << >>
    /\ sections = << >>
    /\ lpc = "input"
    /\ raw_sections = << >>
    /\ NoMatchCall

\* extract_page_map: _recursive_rect_merge
RectMerge ==
    /\ xpc = "raw"
    /\ extracted' = RecursiveRectMerge(raw_page.elements, raw_page.width, raw_page.height)
    /\ xpc' = "rect_merged"
    /\ UNCHANGED <<raw_page, separator, loop>>
    /\ UNCHANGED <<storeVars, layoutVars, matchVars>>

\* extract_page_map: _merge_nearby
Cluster ==
    /\ xpc = "rect_merged"
    /\ extracted' = MergeNearby(extracted)
    /\ xpc' = "clustered"
    /\ UNCHANGED <<raw_page, separator, loop>>
    /\ UNCHANGED <<storeVars, layoutVars, matchVars>>

\* extract_page_map: the identities and the sort
Identify ==
    /\ xpc = "clustered"
    /\ extracted' = IdentifiedElements(extracted)
    /\ xpc' = "extracted"
    /\ UNCHANGED <<raw_page, separator, loop>>
    /\ UNCHANGED <<storeVars, layoutVars, matchVars>>

\* extract_page_map: the header separator, from the raw primitives
DetectSeparator ==
    /\ xpc = "extracted"
    /\ separator' = DetectHeaderSeparator(raw_page.elements, raw_page.width, raw_page.height)
    /\ xpc' = "returned"
    /\ UNCHANGED <<raw_page, extracted, loop>>
    /\ UNCHANGED <<storeVars, layoutVars, matchVars>>

NextExtract == RectMerge \/ Cluster \/ Identify \/ DetectSeparator

SpecExtract == InitExtract /\ [][NextExtract]_vars

(***************************************************************************)
(* Properties of the page map extractor                                    *)
(***************************************************************************)
\* the rects of the page that the page-fraction filter keeps
RetainedRects ==
    {k \in DOMAIN raw_page.elements :
        /\ raw_page.elements[k].type = "rect"
        /\ ~(2 * BboxArea(raw_page.elements[k].bbox) > raw_page.width * raw_page.height)}

\* the places of the rectangle groups in the result of the rect merge
GroupsOut == {k \in DOMAIN extracted : extracted[k].type = "merged"}

\* C26: when _recursive_rect_merge returns on a page with a retained rect,
\* no two groups touch within the tolerance, no group contains another, and
\* no primitive left free lies within a group; the rects [0,0,10,10] and
\* [8,8,20,20] alone end as one group of bbox [0,0,20,20]
C26_RectMergeFixpoint ==
    (xpc = "rect_merged" /\ RetainedRects # {}) =>
        /\ GroupsOut # {}
        /\ \A i \in GroupsOut, j \in GroupsOut :
               i # j => /\ ~Touches(extracted[i].bbox, extracted[j].bbox)
                        /\ ~Contains(extracted[i].bbox, extracted[j].bbox)
        /\ \A g \in GroupsOut, f \in DOMAIN extracted \ GroupsOut :
               ~Contains(extracted[g].bbox, extracted[f].bbox)
        /\ ({raw_page.elements[k].bbox : k \in DOMAIN raw_page.elements}
                = {<<0, 0, 10, 10>>, <<8, 8, 20, 20>>}
            => Len(extracted) = 1 /\ extracted[1].bbox = <<0, 0, 20, 20>>)

\* two rects that touch only within the tolerance were merged, and the
\* merged group took in a word that neither rect held
C26_Witness ==
    /\ xpc = "rect_merged"
    /\ Len(raw_page.elements) = 3
    /\ {raw_page.elements[k].bbox : k \in DOMAIN raw_page.elements}
           = {<<9, 0, 15, 5>>, <<0, 0, 10, 10>>, <<11, 0, 15, 10>>}
    /\ Len(extracted) = 1
    /\ extracted[1].bbox = <<0, 0, 15, 10>>
    /\ extracted[1].child_count = 3

\* the gap between the intervals [lo1, hi1] and [lo2, hi2], 0 when they meet
IntervalGap(lo1, hi1, lo2, hi2) == Max2(0, Max2(lo1, lo2) - Min2(hi1, hi2))

\* C27: when _merge_nearby returns, no two clusters are within the 5pt gap
\* of each other in both axes, in whatever order the elements came; the
\* blocks [0,0,5,5] and [9,0,15,5] alone end as one cluster [0,0,15,5]
C27_NoNearbyClusters ==
    xpc = "clustered" =>
        /\ \A i \in DOMAIN extracted, j \in DOMAIN extracted :
               i # j =>
                   \/ IntervalGap(extracted[i].bbox[1], extracted[i].bbox[3],
                                  extracted[j].bbox[1], extracted[j].bbox[3]) > PROXIMITY_GAP
                   \/ IntervalGap(extracted[i].bbox[2], extracted[i].bbox[4],
                                  extracted[j].bbox[2], extracted[j].bbox[4]) > PROXIMITY_GAP
        /\ ({raw_page.elements[k].bbox : k \in DOMAIN raw_page.elements}
                = {<<0, 0, 5, 5>>, <<9, 0, 15, 5>>}
            => Len(extracted) = 1 /\ extracted[1].bbox = <<0, 0, 15, 5>>)

\* the word at the bottom left is far from the box at the bottom right and
\* was passed over, then the box took in the rule above both, and a second
\* pass joined the word to them
C27_Witness ==
    /\ xpc = "clustered"
    /\ Len(raw_page.elements) = 3
    /\ {raw_page.elements[k].bbox : k \in DOMAIN raw_page.elements}
           = {<<0, 26, 6, 28>>, <<20, 24, 30, 30>>, <<0, 22, 30, 22>>}
    /\ Len(extracted) = 1
    /\ extracted[1].bbox = <<0, 22, 30, 30>>

\* the list _merge_nearby was called with, and its final clusters
ClusterInput == RecursiveRectMerge(raw_page.elements, raw_page.width, raw_page.height)

FinalClusters == ClusterUntilStable([k \in DOMAIN ClusterInput |-> ClusterOf(ClusterInput[k])])

\* a constituent of the cluster carries text
CarriesText(c) == \E k \in DOMAIN c.texts : c.texts[k] # << >>

\* C28: a final cluster is a text_block exactly when its types are among
\* text and merged and a constituent carries text, a drawing_block exactly
\* when no constituent carries text (merged groups without text included),
\* and a mixed_block otherwise
C28_Classification ==
    (xpc = "clustered" /\ Len(ClusterInput) > 1) =>
        /\ Len(extracted) = Len(FinalClusters)
        /\ \A k \in DOMAIN extracted :
               LET c == FinalClusters[k]
               IN  /\ extracted[k].type = "text_block"
                         <=> (c.types \subseteq {"text", "merged"} /\ CarriesText(c))
                   /\ extracted[k].type = "drawing_block" <=> ~CarriesText(c)
                   /\ extracted[k].type = "mixed_block"
                         <=> (CarriesText(c) /\ ~(c.types \subseteq {"text", "merged"}))

BlockTypes == {"text_block", "drawing_block", "mixed_block"}

\* C29: every element of the extractor's result is a text_block, a
\* drawing_block or a mixed_block, however many primitives the page has
C29_OnlyBlockTypes ==
    xpc = "extracted" => \A k \in DOMAIN extracted : extracted[k].type \in BlockTypes

\* C30: in the result of extract_page_map the identities are unique and go
\* up in reading order: the k-th element by (top, left) has the identity E<k>
C30_IdsInReadingOrder ==
    xpc = "extracted" =>
        /\ {extracted[k].id : k \in DOMAIN extracted} = 1..Len(extracted)
        /\ \A i \in DOMAIN extracted, j \in DOMAIN extracted :
               extracted[i].id < extracted[j].id
                   => ReadingKeyLeq(extracted[i].bbox, extracted[j].bbox)

\* the line and rect primitives of the raw page that are at most 3pt thick,
\* span half the page width and have their midpoint in the top 15% of it
ThinWideTop ==
    {k \in DOMAIN raw_page.elements :
        /\ raw_page.elements[k].type = "line" \/ raw_page.elements[k].type = "rect"
        /\ raw_page.elements[k].bbox[4] - raw_page.elements[k].bbox[2] <= 3
        /\ 2 * (raw_page.elements[k].bbox[3] - raw_page.elements[k].bbox[1]) >= raw_page.width
        /\ 100 * (raw_page.elements[k].bbox[2] + raw_page.elements[k].bbox[4])
               <= 2 * 15 * raw_page.height}

\* C31: _detect_header_separator returns a value exactly when a line or rect
\* of the unfiltered input is at most 3pt thick, spans at least half the page
\* width and has its midpoint in the top 15% of the page, and the value is
\* the largest midpoint y of these
C31_SeparatorIsLowestCandidate ==
    xpc = "returned" =>
        /\ separator # NoSep <=> ThinWideTop # {}
        /\ separator # NoSep =>
               /\ \E k \in ThinWideTop :
                      separator = raw_page.elements[k].bbox[2] + raw_page.elements[k].bbox[4]
               /\ \A k \in ThinWideTop :
                      separator >= raw_page.elements[k].bbox[2] + raw_page.elements[k].bbox[4]

\* a page with a rule at y = 3, a 3pt thick rect of midpoint 2.5 and a short
\* rule at y = 4: the separator is the rule at y = 3 (6 half points)
C31_Witness ==
    /\ xpc = "returned"
    /\ Len(raw_page.elements) = 3
    /\ {raw_page.elements[k].bbox : k \in DOMAIN raw_page.elements}
           = {<<5, 1, 25, 4>>, <<0, 3, 30, 3>>, <<10, 4, 20, 4>>}
    /\ separator = 6

(***************************************************************************)
(* The three repeat-until-no-change loops, one pass at a time:             *)
(* _recursive_rect_merge, _merge_nearby, _resolve_overlaps.  A loop is     *)
(* entered with changed = True and runs a pass while the flag is set.      *)
(* No loop is entered at first; one of the functions is then called.       *)
(***************************************************************************)
RectLoopStarts ==
    {LoopStart("rect_merge", InitialGroups(Filtered(p.elements, p.width, p.height)),
               SelectSeq(Filtered(p.elements, p.width, p.height), LAMBDA e : e.type # "rect")) :
        p \in {q \in RawPages : InitialGroups(Filtered(q.elements, q.width, q.height)) # << >>}}

NearbyLoopStarts ==
    {LoopStart("merge_nearby", [k \in DOMAIN es |-> ClusterOf(es[k])], << >>) :
        es \in {e \in {RecursiveRectMerge(p.elements, p.width, p.height) : p \in RawPages} :
                   Len(e) > 1}}

ResolveLoopStarts ==
    {LoopStart("resolve_overlaps", l, << >>) : l \in Layouts}

InitLoops ==
    /\ loop = NoLoop
    /\ raw_page = [width |-> 0, height |-> 0, elements |-> << >>]
    /\ extracted = << >>
    /\ xpc = "idle"
    /\ separator = NoSep
    /\ InitStore
    /\ page_map = [width |-> 0, height |-> 0, header_separator_y |-> NoSep, elements |-> << >>]
    /\ layout = << >>
    /\ sections = << >>
    /\ lpc = "input"
    /\ raw_sections = << >>
    /\ NoMatchCall

\* one of the three functions is called and reaches its loop
EnterLoop ==
    /\ loop.fn = "none"
    /\ \/ loop' \in RectLoopStarts
       \/ loop' \in NearbyLoopStarts
       \/ loop' \in ResolveLoopStarts
    /\ UNCHANGED <<raw_page, extracted, xpc, separator>>
    /\ UNCHANGED <<storeVars, layoutVars, matchVars>>

\* the loop of _recursive_rect_merge after one more pass
AfterRectPass ==
    LET p == MergePass(loop.items, loop.free)
    IN  [loop EXCEPT !.items = p[1], !.free = p[2], !.changed = p[3], !.passes = @ + 1]

\* one pass of the loop of _recursive_rect_merge
RectPass ==
    /\ loop.fn = "rect_merge"
    /\ loop.changed
    /\ loop' = AfterRectPass
    /\ UNCHANGED <<raw_page, extracted, xpc, separator>>
    /\ UNCHANGED <<storeVars, layoutVars, matchVars>>

\* the loop of _merge_nearby after one more pass
AfterNearbyPass ==
    LET r == NearI(loop.items, {}, 1, FALSE)
    IN  [loop EXCEPT !.items = r[1], !.changed = r[2], !.passes = @ + 1]

\* one pass of the loop of _merge_nearby
NearbyPass ==
    /\ loop.fn = "merge_nearby"
    /\ loop.changed
    /\ loop' = AfterNearbyPass
    /\ UNCHANGED <<raw_page, extracted, xpc, separator>>
    /\ UNCHANGED <<storeVars, layoutVars, matchVars>>

\* the loop of _resolve_overlaps after one more pass
AfterResolvePass ==
    LET r == ScanI(loop.items, 1, FALSE)
    IN  [loop EXCEPT !.items = r[1], !.changed = r[2], !.passes = @ + 1]

\* one pass of the loop of _resolve_overlaps
ResolvePass ==
    /\ loop.fn = "resolve_overlaps"
    /\ loop.changed
    /\ loop' = AfterResolvePass
    /\ UNCHANGED <<raw_page, extracted, xpc, separator>>
    /\ UNCHANGED <<storeVars, layoutVars, matchVars>>

NextLoops == EnterLoop \/ RectPass \/ NearbyPass \/ ResolvePass

SpecLoops == InitLoops /\ [][NextLoops]_vars

\* C32: the three loops end on every input: each pass that reports a change
\* leaves fewer groups, clusters, regions or unabsorbed primitives, and none
\* of them more, so that a loop entered with n of them has made at most n
\* passes that report a change, and the one after them ends it
C32_LoopsTerminate ==
    [][loop.changed =>
          /\ loop'.changed =>
                 /\ Len(loop'.items) <= Len(loop.items)
                 /\ Len(loop'.free) <= Len(loop.free)
                 /\ Len(loop'.items) + Len(loop'.free) < Len(loop.items) + Len(loop.free)
          /\ ~loop'.changed =>
                 /\ Len(loop'.items) = Len(loop.items)
                 /\ Len(loop'.free) = Len(loop.free)
          /\ loop'.passes + Len(loop'.items) + Len(loop'.free)
                 <= loop.passes + Len(loop.items) + Len(loop.free) + 1]_vars

\* a rect merge that ended after three passes, two of which changed something
C32_Witness ==
    /\ loop.fn = "rect_merge"
    /\ ~loop.changed
    /\ loop.passes = 3

(***************************************************************************)
(* One run of one stage over a job whose only pair has LongPages pages, so *)
(* that the run has more than PROGRESS_PERSIST_INTERVAL units.  gather     *)
(* creates the bounded() tasks in the order of the work items and the      *)
(* asyncio semaphore wakes its waiters first come, first served: the units *)
(* enter in the order of the work items.                                   *)
(***************************************************************************)
LongPages == 11

InitLongRun ==
    /\ \E stage \in Stages :
          LET job == JobMetadata(1, <<PdfPair(1, LongPages, 1)>>, 0)
          IN  /\ jobs = IF stage = "section" THEN <<DetectedJob(job)>> ELSE <<job>>
              /\ jobs_file = PersistAll(<<job>>).file
              /\ temp_file = PersistAll(<<job>>).temp
              /\ runs = <<NewRun(1, stage)>>
    /\ now = 0
    /\ created = 1
    /\ restarts = 0
    /\ results = {}
    /\ page_map = [width |-> 0, height |-> 0, header_separator_y |-> NoSep, elements |-> << >>]
    /\ layout = << >>
    /\ sections = << >>
    /\ lpc = "input"
    /\ raw_sections = << >>
    /\ NoMatchCall
    /\ NoExtraction

\* bounded() of the unit u gets the semaphore when every unit before it has
UnitEnterInOrder(r, u) ==
    /\ \A v \in 1..(u - 1) : runs[r].units[v] # "pending"
    /\ UnitEnter(r, u)

NextLongRun ==
    \/ \E r \in DOMAIN runs : RunStart(r)
    \/ \E r \in DOMAIN runs : \E u \in DOMAIN runs[r].units : UnitEnterInOrder(r, u)
    \/ \E r \in DOMAIN runs : \E u \in DOMAIN runs[r].units :
          \E outcome \in {"stored", "raised"} : UnitFinish(r, u, outcome)
    \/ \E r \in DOMAIN runs : RunEnd(r)

SpecLongRun == InitLongRun /\ [][NextLongRun]_vars

\* a unit of the run r completes in this step, as its k-th: the finally
\* clause of bounded() has run and the process is still up
UnitCompletes(r) ==
    /\ r \in DOMAIN runs
    /\ r \in DOMAIN runs'
    /\ runs[r].pc = "gather"
    /\ runs'[r].pc = "gather"
    /\ runs'[r].completed = runs[r].completed + 1

\* C33: for each of the three stages, during a run of N units the snapshot
\* is persisted at the completion of the k-th unit exactly when k = N or k is
\* a multiple of 10
C33_PersistEveryTenthAndLast ==
    [][\A r \in DOMAIN runs :
          UnitCompletes(r) =>
              LET k == runs'[r].completed
                  N == Len(runs[r].units)
              IN  (k = N \/ k % 10 = 0)
                      <=> Durable(jobs_file', jobs', runs[r].job_id, runs[r].stage)]_vars

(***************************************************************************)
(* One run of one stage under fair scheduling, in a process that is not    *)
(* stopped: the event loop runs every task that can run, and a unit        *)
(* operation that has been called returns, raises or hangs (it never       *)
(* returns).  persist_job can raise as in SpecIO.                          *)
(***************************************************************************)
\* the most unit operations that hang
MaxHung == 1

InitFair ==
    /\ \E pairs \in PairLists, stage \in Stages :
          LET job == JobMetadata(1, pairs, 0)
          IN  /\ jobs = IF stage = "section" THEN <<DetectedJob(job)>> ELSE <<job>>
              /\ jobs_file = PersistAll(<<job>>).file
              /\ temp_file = PersistAll(<<job>>).temp
              /\ runs = <<NewRun(1, stage)>>
    /\ now = 0
    /\ created = 1
    /\ restarts = MaxRestarts
    /\ results = {}
    /\ page_map = [width |-> 0, height |-> 0, header_separator_y |-> NoSep, elements |-> << >>]
    /\ layout = << >>
    /\ sections = << >>
    /\ lpc = "input"
    /\ raw_sections = << >>
    /\ NoMatchCall
    /\ NoExtraction

\* the units of the run whose operation never returns
Hung(run) == {u \in DOMAIN run.units : run.units[u] = "hung"}

\* the unit operation awaited by bounded() of the unit u never returns: the
\* unit keeps the semaphore and its finally clause is never reached
UnitHangs(r, u) ==
    /\ r \in DOMAIN runs
    /\ UnitsRunning(runs[r])
    /\ u \in DOMAIN runs[r].units
    /\ runs[r].units[u] = "executing"
    /\ Cardinality(Hung(runs[r])) < MaxHung
    /\ Step(jobs, [runs EXCEPT ![r].units[u] = "hung"], FALSE)
    /\ UNCHANGED <<now, created>>
    /\ UNCHANGED pureVars

\* the task of run_* gets its turn: its head runs, to the gather or to a
\* persist_job that raises
RunTaskStarts == \E r \in DOMAIN runs : RunStart(r) \/ RunStartPersistRaises(r)

\* gather has returned or raised and the task of run_* gets its turn
RunTaskEnds == \E r \in DOMAIN runs : RunEnd(r) \/ RunEndPersistRaises(r) \/ RunExcept(r)

\* a bounded() task waiting for the semaphore gets it
SomeUnitEnters == \E r \in DOMAIN runs : \E u \in DOMAIN runs[r].units : UnitEnter(r, u)

\* the unit operation of the unit u is over, one way or the other
UnitOperationEnds(r, u) ==
    \/ \E outcome \in {"stored", "raised"} : UnitFinish(r, u, outcome)
    \/ \E outcome \in {"stored", "raised"} : UnitFinishPersistRaises(r, u, outcome)
    \/ UnitHangs(r, u)

NextFair ==
    \/ RunTaskStarts
    \/ SomeUnitEnters
    \/ \E r \in DOMAIN runs : \E u \in DOMAIN runs[r].units : UnitOperationEnds(r, u)
    \/ RunTaskEnds

SpecFair ==
    /\ InitFair
    /\ [][NextFair]_vars
    /\ WF_vars(RunTaskStarts)
    /\ WF_vars(SomeUnitEnters)
    /\ \A u \in 1..MaxPages : WF_vars(UnitOperationEnds(1, u))
    /\ WF_vars(RunTaskEnds)

\* the stage of the run is running
StageRunning == \E k \in DOMAIN jobs : Status(jobs[k], runs[1].stage) = "running"

\* C34: under fair scheduling, if every unit operation of the run returns or
\* raises, the stage leaves running in the end; if one never returns, the
\* stage stays running for ever and the other units still complete
C34_StageEndsUnlessUnitHangs ==
    /\ [](Hung(runs[1]) = {}) => (StageRunning ~> ~StageRunning)
    /\ [](Hung(runs[1]) # {} =>
             /\ [](StageRunning)
             /\ <>(\A u \in DOMAIN runs[1].units : u \in Hung(runs[1]) \/ Finished(runs[1].units[u])))

(***************************************************************************)
(* Stages running side by side on one job record                           *)
(***************************************************************************)
\* the task of run r, or one of its bounded() tasks, takes this step
RunActs(r) ==
    /\ r \in DOMAIN runs
    /\ r \in DOMAIN runs'
    /\ runs'[r] # runs[r]

\* the step leaves status, progress and total of the stage as they were
StageUntouched(before, after, stage) ==
    /\ Status(after, stage) = Status(before, stage)
    /\ Progress(after, stage) = Progress(before, stage)
    /\ Total(after, stage) = Total(before, stage)

\* C35: a step of a run of one stage changes neither status, progress or
\* total of another stage of its job nor any field of another job, whatever
\* other runs are in flight
C35_RunKeepsToItsStage ==
    [][\A r \in DOMAIN runs :
          (RunActs(r) /\ ~ProcessStarted) =>
              /\ Len(jobs') = Len(jobs)
              /\ \A k \in DOMAIN jobs :
                    IF jobs[k].job_id = runs[r].job_id
                    THEN \A stage \in Stages \ {runs[r].stage} :
                             StageUntouched(jobs[k], jobs'[k], stage)
                    ELSE jobs'[k] = jobs[k]]_vars

\* detection and the global stage of one job are running together, and each
\* of the two runs has counted a unit
C35_Witness ==
    \E r1 \in DOMAIN runs, r2 \in DOMAIN runs :
        /\ runs[r1].job_id = runs[r2].job_id
        /\ runs[r1].stage = "detection" /\ runs[r1].completed = 1
        /\ runs[r2].stage = "global" /\ runs[r2].completed = 1
        /\ LET job == GetJob(jobs, runs[r1].job_id)
           IN  /\ job.analysis_status = "running" /\ job.analysis_progress = 1
               /\ job.global_analysis_status = "running"
               /\ job.global_analysis_progress = 1

(***************************************************************************)
(* The section stage waits for section detection                           *)
(***************************************************************************)
\* C36: the section stage of a job becomes running only in a step that starts
\* with the job's detection status done, and the task of a section run that
\* starts while detection is not done ends in that step and leaves every job
\* record, so every status, progress and total, as it was
C36_SectionNeedsDetectionDone ==
    [][/\ \A k \in DOMAIN jobs :
             (/\ jobs[k].job_id \in JobIds(jobs')
              /\ jobs[k].section_analysis_status # "running"
              /\ GetJob(jobs', jobs[k].job_id).section_analysis_status = "running")
                 => jobs[k].analysis_status = "done"
       /\ \A r \in DOMAIN runs :
             (/\ RunActs(r)
              /\ ~ProcessStarted
              /\ runs[r].stage = "section"
              /\ runs[r].pc = "scheduled"
              /\ GetJob(jobs, runs[r].job_id).analysis_status # "done")
                 => /\ runs'[r].pc = "ended"
                    /\ jobs' = jobs]_vars

\* a section run was accepted while detection was done, a new detection run
\* of the job started before the section task did, and the section task has
\* returned with the section stage still idle
C36_Witness ==
    \E r \in DOMAIN runs :
        /\ runs[r].stage = "section"
        /\ runs[r].pc = "ended"
        /\ LET job == GetJob(jobs, runs[r].job_id)
           IN  /\ job.analysis_status = "running"
               /\ job.section_analysis_status = "idle"
               /\ job.section_analysis_total = 0

(***************************************************************************)
(* A long run on a data directory that can refuse a write: one run of the  *)
(* global or section stage over LongPages work items, whose persist_job    *)
(* calls may raise.  The process is not stopped during the run.            *)
(***************************************************************************)
InitLongIO ==
    /\ \E stage \in {"global", "section"} :
          LET job == JobMetadata(1, <<PdfPair(1, LongPages, 1)>>, 0)
          IN  /\ jobs = IF stage = "section" THEN <<DetectedJob(job)>> ELSE <<job>>
              /\ jobs_file = PersistAll(<<job>>).file
              /\ temp_file = PersistAll(<<job>>).temp
              /\ runs = <<NewRun(1, stage)>>
    /\ now = 0
    /\ created = 1
    /\ restarts = MaxRestarts
    /\ results = {}
    /\ page_map = [width |-> 0, height |-> 0, header_separator_y |-> NoSep, elements |-> << >>]
    /\ layout = << >>
    /\ sections = << >>
    /\ lpc = "input"
    /\ raw_sections = << >>
    /\ NoMatchCall
    /\ NoExtraction

\* every unit operation returns; only persist_job may raise
NextLongIO ==
    \/ \E r \in DOMAIN runs : RunStart(r)
    \/ \E r \in DOMAIN runs : RunStartPersistRaises(r)
    \/ \E r \in DOMAIN runs : \E u \in DOMAIN runs[r].units : UnitEnterInOrder(r, u)
    \/ \E r \in DOMAIN runs : \E u \in DOMAIN runs[r].units : UnitFinish(r, u, "stored")
    \/ \E r \in DOMAIN runs : \E u \in DOMAIN runs[r].units :
          UnitFinishPersistRaises(r, u, "stored")
    \/ \E r \in DOMAIN runs : RunExcept(r)
    \/ \E r \in DOMAIN runs : RunEnd(r)
    \/ \E r \in DOMAIN runs : RunEndPersistRaises(r)

SpecLongIO == InitLongIO /\ [][NextLongIO]_vars

\* the run has set its stage to done or failed
StageSet(run) == run.pc \in {"failed", "ended"}

\* the units of the run whose bounded() has not reached the end of its
\* finally clause
Unfinished(run) == {u \in DOMAIN run.units : ~Finished(run.units[u])}

\* C37: once a run has set its stage to done or failed none of its units is
\* in flight, and no later step of the run changes the stage's progress or the
\* result store; so too when the run failed because persist_job raised in a
\* unit
C37_NoUnitAfterStageSet ==
    /\ [](\A r \in DOMAIN runs : StageSet(runs[r]) => Unfinished(runs[r]) = {})
    /\ [][\A r \in DOMAIN runs :
              (StageSet(runs[r]) /\ RunActs(r)) =>
                  /\ results' = results
                  /\ Progress(GetJob(jobs', runs[r].job_id), runs[r].stage)
                         = Progress(GetJob(jobs, runs[r].job_id), runs[r].stage)]_vars

(***************************************************************************)
(* The startup load on a snapshot that may hold a record JobMetadata does  *)
(* not accept (written by another version of the program, or edited): the  *)
(* process is about to start on the files, and `restarts` counts its       *)
(* starts.                                                                 *)
(***************************************************************************)
AnalysisStatus == {"idle", "running", "done", "failed"}

\* JobMetadata.model_validate(row) accepts the row: its statuses are members
\* of the enumeration
ValidRow(row) ==
    \A stage \in Stages : Status(row, stage) \in AnalysisStatus

RECURSIVE LoadRowsValidating(_, _)
\* the loop of _load_from_disk: every row is validated and stored, up to the
\* first row that model_validate rejects
LoadRowsValidating(raw, js) ==
    IF raw = << >> THEN [jobs |-> js, raised |-> FALSE]
    ELSE IF ~ValidRow(Head(raw)) THEN [jobs |-> js, raised |-> TRUE]
    ELSE LoadRowsValidating(Tail(raw), PutJob(js, Head(raw)))

\* the rows a snapshot can hold for a job: a stage is idle, running or over,
\* or the detection status is no member of AnalysisStatus
SnapshotRows(job_id) ==
    { [JobMetadata(job_id, << >>, job_id) EXCEPT !.analysis_status = a,
                                                 !.global_analysis_status = g,
                                                 !.section_analysis_status = s] :
          a \in AnalysisStatus \cup {"queued"},
          g \in {"idle", "running", "failed"},
          s \in {"idle", "running", "done"} }

\* snapshots of no, one or two records, in either order
Snapshots ==
    {<< >>}
        \cup { <<row>> : row \in SnapshotRows(1) }
        \cup { <<x[1], x[2]>> : x \in SnapshotRows(1) \X SnapshotRows(2) }
        \cup { <<x[2], x[1]>> : x \in SnapshotRows(1) \X SnapshotRows(2) }

InitLoad ==
    /\ jobs = << >>
    /\ jobs_file \in {AbsentFile, PartialFile} \cup {CompleteFile(rows) : rows \in Snapshots}
    /\ temp_file = AbsentFile
    /\ runs = << >>
    /\ now = 0
    /\ created = 0
    /\ restarts = 0
    /\ results = {}
    /\ page_map = [width |-> 0, height |-> 0, header_separator_y |-> NoSep, elements |-> << >>]
    /\ layout = << >>
    /\ sections = << >>
    /\ lpc = "input"
    /\ raw_sections = << >>
    /\ NoMatchCall
    /\ NoExtraction

\* _load_from_disk at the import of job_store: the rows are loaded; when none
\* is rejected _reconcile_running_jobs follows and persists what it changed,
\* otherwise the except branch logs the exception and the load is over
StartupLoad ==
    /\ restarts = 0
    /\ LET loaded == IF jobs_file.state = "complete"
                     THEN LoadRowsValidating(jobs_file.rows, << >>)
                     ELSE [jobs |-> << >>, raised |-> FALSE]
           reconciled == ReconcileRunningJobs(loaded.jobs)
       IN  IF loaded.raised
           THEN /\ jobs' = loaded.jobs
                /\ UNCHANGED <<jobs_file, temp_file>>
           ELSE /\ jobs' = reconciled
                /\ jobs_file' = IF reconciled # loaded.jobs THEN PersistAll(reconciled).file ELSE jobs_file
                /\ temp_file' = IF reconciled # loaded.jobs THEN PersistAll(reconciled).temp ELSE temp_file
    /\ restarts' = 1
    /\ UNCHANGED <<runs, results, now, created>>
    /\ UNCHANGED pureVars

NextLoad == StartupLoad

SpecLoad == InitLoad /\ [][NextLoad]_vars

\* C38: once the startup load is over no job in memory has a running stage,
\* whether every record was loaded or the load stopped at a rejected one
C38_NoRunningAfterLoad ==
    restarts > 0 =>
        \A k \in DOMAIN jobs, stage \in Stages : Status(jobs[k], stage) # "running"

(***************************************************************************)
(* What reconciliation makes of a snapshot older than the memory           *)
(***************************************************************************)
\* a run of the stage of the job has been accepted and has not ended
RunInFlight(job_id, stage) ==
    \E r \in DOMAIN runs :
        /\ runs[r].job_id = job_id
        /\ runs[r].stage = stage
        /\ InFlight(runs[r])

\* the start of the process finds the stage running in the snapshot, and
\* reconciliation turns it into failed
Reconciled(job_id, stage) ==
    /\ ProcessStarted
    /\ jobs_file.state = "complete"
    /\ job_id \in JobIds(jobs_file.rows)
    /\ Status(GetJob(jobs_file.rows, job_id), stage) = "running"
    /\ job_id \in JobIds(jobs')
    /\ Status(GetJob(jobs', job_id), stage) = "failed"

\* C39: reconciliation at a process start turns a stage into failed only if a
\* run of that stage was in flight when the process stopped; a stage whose run
\* had ended with done is not turned into failed, whichever runs persisted the
\* snapshot meanwhile
C39_FailedOnlyIfInFlight ==
    [][\A job_id \in JobIds(jobs), stage \in Stages :
          Reconciled(job_id, stage) =>
              /\ RunInFlight(job_id, stage)
              /\ Status(GetJob(jobs, job_id), stage) # "done"]_vars

=============================================================================
